---- MODULE Spec2Model ----
(***************************************************************************)
(* State-machine model of the genimage_py image builders of                *)
(* k230_rtos_sdk: the hdimage handler (tools/genimage_py/image_hd.py) and   *)
(* the kdimage handler (tools/genimage_py/image_kd.py), with the helpers    *)
(* they use from tools/genimage_py/common.py.                               *)
(*                                                                         *)
(* Conventions.                                                            *)
(*  - Python None and the empty string are both written "" for the string  *)
(*    fields that the code only tests for truthiness (image, uuids).       *)
(*  - partition_type keeps its Python type, because the code's behaviour   *)
(*    depends on it: [t |-> "none"], [t |-> "str"] (e.g. "0x83", which the *)
(*    configuration parser leaves a string) or [t |-> "int"] (e.g. 131,    *)
(*    which the parser converts because it is all digits).                 *)
(*  - An output file is a write log: the sequence of extents written since *)
(*    the file was (re)created, read back with ByteAt (the last write      *)
(*    covering a byte wins, bytes never written read as 0x00).             *)
(*  - CRC-32 and SHA-256 are uninterpreted, collision-free functions of    *)
(*    the data they digest.                                                *)
(***************************************************************************)
EXTENDS Integers, Sequences, FiniteSets, TLC

VARIABLES
    handler,    \* "hd" or "kd": which handler's run() is being modelled
    config,     \* the handler's configuration block
    image,      \* the Image object: [size, size_str, partitions]
    priv,       \* the handler's private data (HdPrivateData / KdPrivateData)
    outfile,    \* write log of image.outfile (sequence of extents)
    pc,         \* position inside run(): "start", "setup_ok", ..., "done", "error"
    error       \* the exception that ended run(), or NoError; error.during
                \* names the step that raised it

vars == <<handler, config, image, priv, outfile, pc, error>>

-----------------------------------------------------------------------------
(* Bounds of the explored inputs *)

\* Largest number of user partitions declared in one hdimage.
MaxParts == 2

-----------------------------------------------------------------------------
(* Constants of image_hd.py *)

GPT_SECTORS == 33
GPT_ENTRIES == 128
TYPE_NONE == 0
TYPE_MBR == 1
TYPE_GPT == 2
TYPE_HYBRID == 3
PARTITION_TYPE_EXTENDED == 15

\* (table_type & flag) != 0 for a one-bit flag
HasFlag(table_type, flag) == (table_type \div flag) % 2 = 1

Max(a, b) == IF a >= b THEN a ELSE b
Min(a, b) == IF a <= b THEN a ELSE b

\* HdImageHandler._roundup
_roundup(value, align) ==
    IF align = 0 THEN value ELSE (((value - 1) \div align) + 1) * align

\* HdImageHandler._rounddown
_rounddown(value, align) ==
    IF align = 0 THEN value ELSE value - (value % align)

-----------------------------------------------------------------------------
(* Exceptions *)

NoError == [type |-> "", msg |-> ""]
Raise(type, msg) == [type |-> type, msg |-> msg]

\* the exception as it leaves run(), with the step that raised it
Raised(err, during) == [type |-> err.type, msg |-> err.msg, during |-> during]
NoException == Raised(NoError, "")

-----------------------------------------------------------------------------
(* partition_type values *)

PtNone == [t |-> "none", v |-> 0]
PtStr(v) == [t |-> "str", v |-> v]
PtInt(v) == [t |-> "int", v |-> v]

\* Python truthiness of a partition_type
PtTruthy(pt) == (pt.t = "str") \/ (pt.t = "int" /\ pt.v # 0)

-----------------------------------------------------------------------------
(* Child images available to the handlers: name -> size and fill byte *)

ChildNames == {"a", "b", "c"}
ChildSize(name) == CASE name = "a" -> 600 [] name = "b" -> 512 [] name = "c" -> 5000 [] OTHER -> 0
ChildFill(name) == CASE name = "a" -> 65 [] name = "b" -> 66 [] name = "c" -> 67 [] OTHER -> 0
ChildExists(name) == name \in ChildNames

-----------------------------------------------------------------------------
(* common.Partition *)

\* a partition's 64-bit flag, kept as the three fields the kdimage handler
\* takes from it: bits 63..48, bits 47..16 and bits 15..0
KburnFlag(flag_flag, val1, val2) == [flag_flag |-> flag_flag, val1 |-> val1, val2 |-> val2]

Partition(name, in_tbl, offset, size, img, ptype, ptuuid, bootable, autoresize, forced) ==
    [name |-> name, in_partition_table |-> in_tbl, offset |-> offset, size |-> size,
     image |-> img, partition_type |-> ptype, partition_type_uuid |-> ptuuid,
     bootable |-> bootable, autoresize |-> autoresize, logical |-> FALSE,
     align |-> 0, forced_primary |-> forced, flag |-> KburnFlag(0, 0, 0)]

\* a bookkeeping partition: everything but name, offset, size at its default
Bookkeeping(name, offset, size) ==
    Partition(name, FALSE, offset, size, "", PtNone, "", FALSE, FALSE, FALSE)

\* str.startswith('[')
IsBracketed(name) ==
    name \in {"[MBR]", "[GPT header]", "[GPT array]", "[GPT backup]", "[Extended]", "[TOC]"}

-----------------------------------------------------------------------------
(* hdimage: setup (image_hd.py, HdImageHandler.setup) *)

\* HdPrivateData after _parse_config_parameters
HdParseConfig(cfg) ==
    [extended_partition_index |-> cfg.extended_partition,
     extended_partition |-> 0,         \* index in image.partitions, 0 = None
     align |-> cfg.align,
     disksig |-> 0,
     table_type |-> CASE cfg.table = "none" -> TYPE_NONE
                      [] cfg.table = "mbr" -> TYPE_MBR
                      [] cfg.table = "gpt" -> TYPE_GPT
                      [] cfg.table = "hybrid" -> TYPE_HYBRID,
     gpt_location |-> cfg.gpt_location,
     gpt_no_backup |-> cfg.gpt_no_backup,
     fill |-> FALSE,
     file_size |-> 0,
     toc_enable |-> cfg.toc,
     toc_offset |-> cfg.toc_offset,
     toc_num |-> 0,
     toc_entries |-> <<>>]

\* _validate_config_parameters
HdValidateConfig(pv) ==
    IF pv.table_type # TYPE_NONE /\ (pv.align % 512 # 0 \/ pv.align = 0)
    THEN Raise("ImageError", "alignment must be a multiple of 512")
    ELSE IF pv.gpt_location % 512 # 0
    THEN Raise("ImageError", "gpt location must be a multiple of 512")
    ELSE NoError

\* number of in-table partitions
InTableCount(parts) == Cardinality({i \in 1..Len(parts) : parts[i].in_partition_table})

\* _ensure_extended_partition_index
_ensure_extended_partition_index(pv, parts) ==
    IF pv.extended_partition_index # 0 THEN pv
    ELSE IF InTableCount(parts) > 4 THEN [pv EXCEPT !.extended_partition_index = 4]
    ELSE pv

\* the [Extended] partition created in _setup_logical_partitions
ExtendedPartition(first, align) ==
    [Partition("[Extended]", TRUE, IF first.offset # 0 THEN first.offset - align ELSE 0, 0,
               "", PtInt(PARTITION_TYPE_EXTENDED), "", FALSE, FALSE, FALSE)
        EXCEPT !.align = align]

\* the for loop of _setup_logical_partitions; the list grows while it is
\* iterated, so the appended [Extended] partition is visited too.
RECURSIVE HdLogicalLoop(_, _, _)
HdLogicalLoop(st, i, pv) ==
    IF i > Len(st.parts) \/ st.err # NoError THEN st
    ELSE LET part == st.parts[i] IN
      IF ~part.in_partition_table THEN HdLogicalLoop(st, i + 1, pv)
      ELSE
        LET count == st.count + 1
            create == (pv.extended_partition_index = count)
            parts1 == IF create THEN Append(st.parts, ExtendedPartition(part, pv.align))
                      ELSE st.parts
            ext == IF create THEN Len(parts1) ELSE st.ext
            found == st.found_extended \/ create
            in_extended == (st.in_extended \/ create) /\ ~part.forced_primary
            entries0 == st.mbr_entries + (IF create THEN 1 ELSE 0)
            mbr_entries == IF in_extended THEN entries0 ELSE entries0 + 1
            parts2 == IF in_extended THEN [parts1 EXCEPT ![i].logical = TRUE] ELSE parts1
            err == IF part.forced_primary /\ ~found
                   THEN Raise("ImageError", "forced-primary before the extended partition")
                   ELSE IF ~part.forced_primary /\ ~in_extended /\ found
                   THEN Raise("ImageError", "non-primary partition after a forced primary partition")
                   ELSE IF mbr_entries > 4
                   THEN Raise("ImageError", "too many primary partitions")
                   ELSE NoError
        IN HdLogicalLoop([parts |-> parts2, count |-> count, mbr_entries |-> mbr_entries,
                          in_extended |-> in_extended, found_extended |-> found,
                          ext |-> ext, err |-> err], i + 1, pv)

\* _setup_logical_partitions: [parts, pv, err]
_setup_logical_partitions(parts, pv0) ==
    IF pv0.extended_partition_index > 4
    THEN [parts |-> parts, pv |-> pv0, err |-> Raise("ImageError", "invalid extended partition index")]
    ELSE IF pv0.table_type # TYPE_MBR
    THEN [parts |-> parts, pv |-> pv0, err |-> NoError]
    ELSE LET pv == _ensure_extended_partition_index(pv0, parts) IN
      IF pv.extended_partition_index = 0
      THEN [parts |-> parts, pv |-> pv, err |-> NoError]
      ELSE LET r == HdLogicalLoop([parts |-> parts, count |-> 0, mbr_entries |-> 0,
                                   in_extended |-> FALSE, found_extended |-> FALSE,
                                   ext |-> 0, err |-> NoError], 1, pv)
           IN [parts |-> r.parts, pv |-> [pv EXCEPT !.extended_partition = r.ext], err |-> r.err]

\* _setup_uuid: the disk signature (0 = not configured, else the value
\* int(s, 0) reads)
_setup_uuid(pv, cfg) ==
    IF cfg.disk_signature = 0 THEN [pv |-> pv, err |-> NoError]
    ELSE IF ~HasFlag(pv.table_type, TYPE_MBR)
    THEN [pv |-> pv, err |-> Raise("ImageError", "disk-signature is only valid for MBR and hybrid")]
    ELSE [pv |-> [pv EXCEPT !.disksig = cfg.disk_signature], err |-> NoError]

\* _validate_hybrid_partition_table with the upper limit off by one
_validate_hybrid_partition_table_max4(pv, parts) ==
    LET hybrid_entries == Cardinality({i \in 1..Len(parts) :
            parts[i].in_partition_table /\ PtTruthy(parts[i].partition_type)})
    IN IF pv.table_type # TYPE_HYBRID THEN NoError
       ELSE IF hybrid_entries = 0 THEN Raise("ImageError", "hybrid table needs a partition with partition-type")
       ELSE IF hybrid_entries > 4 THEN Raise("ImageError", "hybrid table supports max 3 partitions")
       ELSE NoError

\* _validate_hybrid_partition_table
_validate_hybrid_partition_table(pv, parts) ==
    LET hybrid_entries == Cardinality({i \in 1..Len(parts) :
            parts[i].in_partition_table /\ PtTruthy(parts[i].partition_type)})
    IN IF pv.table_type # TYPE_HYBRID THEN NoError
       ELSE IF hybrid_entries = 0 THEN Raise("ImageError", "hybrid table needs a partition with partition-type")
       ELSE IF hybrid_entries > 3 THEN Raise("ImageError", "hybrid table supports max 3 partitions")
       ELSE NoError

\* _setup_toc_partitions: one entry per partition whose name does not start
\* with '[', taken from the partition as it is at this point of setup
TocEntries(parts) ==
    LET RECURSIVE Collect(_)
        Collect(i) ==
            IF i > Len(parts) THEN <<>>
            ELSE IF IsBracketed(parts[i].name) THEN Collect(i + 1)
            ELSE <<[partition_name |-> parts[i].name,
                    partition_offset |-> parts[i].offset,
                    partition_size |-> parts[i].size,
                    load |-> 0, boot |-> 0]>> \o Collect(i + 1)
    IN Collect(1)

\* _setup_toc_partitions: [parts, pv]
_setup_toc_partitions(parts, pv) ==
    LET toc_entries == TocEntries(parts)
        index_count == Len(toc_entries)
    IN IF ~pv.toc_enable \/ index_count = 0 THEN [parts |-> parts, pv |-> pv]
       ELSE [parts |-> Append(parts, Bookkeeping("[TOC]", pv.toc_offset, 64 * index_count)),
             pv |-> [pv EXCEPT !.toc_num = index_count, !.toc_entries = toc_entries]]

\* _setup_autoresize_partitions: [parts, err]
RECURSIVE _setup_autoresize_partitions(_, _, _, _, _)
_setup_autoresize_partitions(parts, i, resized, pv, image_size) ==
    IF i > Len(parts) THEN [parts |-> parts, err |-> NoError]
    ELSE IF ~parts[i].autoresize THEN _setup_autoresize_partitions(parts, i + 1, resized, pv, image_size)
    ELSE IF resized THEN [parts |-> parts, err |-> Raise("ImageError", "only one auto-resizing partition")]
    ELSE IF image_size = 0 THEN [parts |-> parts, err |-> Raise("ImageError", "auto-resizing needs an image size")]
    ELSE
      LET part == parts[i]
          avail == image_size - part.offset
                   - (IF HasFlag(pv.table_type, TYPE_GPT) THEN GPT_SECTORS * 512 ELSE 0)
          partsize == _rounddown(avail, IF part.align # 0 THEN part.align ELSE pv.align)
      IN IF partsize <= 0 THEN [parts |-> parts, err |-> Raise("ImageError", "partition exceeds device size")]
         ELSE IF partsize < part.size
         THEN [parts |-> parts, err |-> Raise("ImageError", "auto-resized size below minimum size")]
         ELSE _setup_autoresize_partitions([parts EXCEPT ![i].size = partsize], i + 1, TRUE, pv, image_size)

\* the two intervals are not disjoint (the test of _check_overlap)
Intersect(part, other) ==
    ~(part.offset >= other.offset + other.size) /\ ~(other.offset >= part.offset + part.size)

\* index of the first partition equal (dataclass ==) to parts[i]
FirstEqual(parts, i) == CHOOSE k \in 1..i : parts[k] = parts[i] /\ \A j \in 1..(k - 1) : parts[j] # parts[i]

\* _check_overlap raises: some partition listed before the first one equal
\* to parts[i] intersects it (child images carry no holes)
_check_overlap(parts, i) ==
    \E k \in 1..(FirstEqual(parts, i) - 1) : Intersect(parts[i], parts[k])

\* _get_child_image_size: looks the child's name up among the partitions
_get_child_image_size(parts, child_name) ==
    IF \E k \in 1..Len(parts) : parts[k].name = child_name
    THEN parts[CHOOSE k \in 1..Len(parts) : parts[k].name = child_name
                      /\ \A j \in 1..(k - 1) : parts[j].name # child_name].size
    ELSE 0

\* fault: the size test is skipped
SizeNotSectors_skipped(in_tbl, size) == FALSE

\* the test of _calculate_partition_offsets on an in-table partition's size
SizeNotSectors(in_tbl, size) == in_tbl /\ size % 512 # 0

\* the test of _calculate_partition_offsets on a partition's offset
OffsetMisaligned(offset, align) == offset % align # 0

\* fault: the final size test is skipped
ExceedsImage_skipped(now, size) == FALSE

\* the final test of _calculate_partition_offsets
ExceedsImage(now, size) == now > size

\* one iteration of the placement loop of _calculate_partition_offsets
\* st = [parts, now, file_size, err]; gpt_backup is the index of [GPT backup] or 0
HdPlace(st, i, pv, gpt_backup) ==
    LET part0 == st.parts[i]
        in_tbl == part0.in_partition_table
        align == IF part0.align # 0 THEN part0.align
                 ELSE IF in_tbl \/ pv.table_type = TYPE_NONE THEN pv.align ELSE 1
        need_child == (part0.size = 0)
        size == IF need_child
                THEN (IF in_tbl THEN _roundup(ChildSize(part0.image), align) ELSE ChildSize(part0.image))
                ELSE part0.size
        now1 == IF part0.logical THEN _roundup(st.now + pv.align, align) ELSE st.now
        offset == IF part0.offset = 0 /\ (in_tbl \/ pv.table_type = TYPE_NONE)
                  THEN _roundup(now1, align) ELSE part0.offset
        part == [part0 EXCEPT !.align = align, !.size = size, !.offset = offset]
        parts1 == [st.parts EXCEPT ![i] = part]
        now2 == Max(now1, offset + size)
        fs1 == IF part.image # ""
               THEN Max(st.file_size, offset + _get_child_image_size(parts1, part.image))
               ELSE st.file_size
        fs2 == IF part.logical THEN Max(fs1, offset - pv.align + 512) ELSE fs1
        ext == pv.extended_partition
        parts2 == IF part.logical
                  THEN [parts1 EXCEPT ![ext].size = now2 - parts1[ext].offset]
                  ELSE parts1
        Fail(ps, type, msg) == [parts |-> ps, now |-> st.now, file_size |-> st.file_size,
                                err |-> Raise(type, msg)]
    IN IF in_tbl /\ align % pv.align # 0
       THEN Fail([st.parts EXCEPT ![i].align = align], "ImageError", "partition alignment")
       ELSE IF part0.partition_type_uuid # "" /\ ~HasFlag(pv.table_type, TYPE_GPT)
       THEN Fail([st.parts EXCEPT ![i].align = align], "ImageError", "partition-type-uuid is only valid for GPT and hybrid")
       ELSE IF PtTruthy(part0.partition_type) /\ ~HasFlag(pv.table_type, TYPE_MBR)
       THEN Fail([st.parts EXCEPT ![i].align = align], "ImageError", "partition-type is only valid for MBR and hybrid")
       ELSE IF need_child /\ ~ChildExists(part0.image)
       THEN Fail([st.parts EXCEPT ![i].align = align], "ImageError", "subimage not found")
       ELSE IF i = gpt_backup /\ part0.offset = 0
       THEN Fail([st.parts EXCEPT ![i].align = align, ![i].size = size], "NameError", "name '_roundup' is not defined")
       ELSE IF OffsetMisaligned(offset, align)
       THEN Fail(parts1, "ImageError", "partition offset alignment")
       ELSE IF size = 0 /\ i # ext
       THEN Fail(parts1, "ImageError", "partition size cannot be zero")
       ELSE IF ~part.logical /\ _check_overlap(parts1, i)
       THEN Fail(parts1, "ImageError", "overlap")
       ELSE IF SizeNotSectors(in_tbl, size)
       THEN Fail(parts1, "ImageError", "partition size must be a multiple of 512")
       ELSE [parts |-> parts2, now |-> now2, file_size |-> fs2, err |-> NoError]

RECURSIVE HdPlaceLoop(_, _, _, _)
HdPlaceLoop(st, i, pv, gpt_backup) ==
    IF i > Len(st.parts) \/ st.err # NoError THEN st
    ELSE HdPlaceLoop(HdPlace(st, i, pv, gpt_backup), i + 1, pv, gpt_backup)

\* index of the partition with this name, 0 if there is none
IndexOf(parts, name) ==
    IF \E k \in 1..Len(parts) : parts[k].name = name
    THEN CHOOSE k \in 1..Len(parts) : parts[k].name = name
    ELSE 0

\* the bookkeeping partitions appended before the placement loop
HdReserved(pv, image_size) ==
    IF pv.table_type = TYPE_NONE THEN <<>>
    ELSE <<Bookkeeping("[MBR]", 512 - 72, 72)>> \o
         (IF HasFlag(pv.table_type, TYPE_GPT)
          THEN <<Bookkeeping("[GPT header]", 512, 512),
                 Bookkeeping("[GPT array]", pv.gpt_location, (GPT_SECTORS - 1) * 512),
                 Bookkeeping("[GPT backup]",
                             IF image_size # 0 THEN image_size - GPT_SECTORS * 512 ELSE 0,
                             GPT_SECTORS * 512)>>
          ELSE <<>>)

\* _calculate_partition_offsets: [parts, pv, size, err]
_calculate_partition_offsets(parts0, pv0, image_size) ==
    LET parts1 == parts0 \o HdReserved(pv0, image_size)
        now0 == IF pv0.table_type = TYPE_NONE THEN 0
                ELSE IF HasFlag(pv0.table_type, TYPE_GPT)
                THEN Max(512, pv0.gpt_location + (GPT_SECTORS - 1) * 512)
                ELSE 512
        toc == _setup_toc_partitions(parts1, pv0)
        auto == _setup_autoresize_partitions(toc.parts, 1, FALSE, toc.pv, image_size)
        placed == HdPlaceLoop([parts |-> auto.parts, now |-> now0, file_size |-> 0, err |-> NoError],
                              1, toc.pv, IndexOf(auto.parts, "[GPT backup]"))
        size == IF image_size = 0 THEN placed.now ELSE image_size
        file_size == IF toc.pv.fill \/ (HasFlag(toc.pv.table_type, TYPE_GPT) /\ ~toc.pv.gpt_no_backup)
                     THEN size ELSE placed.file_size
    IN IF auto.err # NoError
       THEN [parts |-> auto.parts, pv |-> toc.pv, size |-> image_size, err |-> auto.err]
       ELSE IF placed.err # NoError
       THEN [parts |-> placed.parts, pv |-> [toc.pv EXCEPT !.file_size = placed.file_size],
             size |-> image_size, err |-> placed.err]
       ELSE IF ExceedsImage(placed.now, size)
       THEN [parts |-> placed.parts, pv |-> [toc.pv EXCEPT !.file_size = placed.file_size],
             size |-> size, err |-> Raise("ImageError", "partition size exceeds image size")]
       ELSE [parts |-> placed.parts, pv |-> [toc.pv EXCEPT !.file_size = file_size],
             size |-> size, err |-> NoError]

\* HdImageHandler.setup: [parts, pv, size, err]
HdSetupResult(cfg, img) ==
    LET pv0 == HdParseConfig(cfg)
        verr == HdValidateConfig(pv0)
        lg == _setup_logical_partitions(img.partitions, pv0)
        uu == _setup_uuid(lg.pv, cfg)
        herr == _validate_hybrid_partition_table(uu.pv, lg.parts)
    IN IF verr # NoError THEN [parts |-> img.partitions, pv |-> pv0, size |-> img.size, err |-> verr]
       ELSE IF lg.err # NoError THEN [parts |-> lg.parts, pv |-> lg.pv, size |-> img.size, err |-> lg.err]
       ELSE IF uu.err # NoError THEN [parts |-> lg.parts, pv |-> uu.pv, size |-> img.size, err |-> uu.err]
       ELSE IF herr # NoError THEN [parts |-> lg.parts, pv |-> uu.pv, size |-> img.size, err |-> herr]
       ELSE _calculate_partition_offsets(lg.parts, uu.pv, img.size)

-----------------------------------------------------------------------------
(* Output files: a log of the writes made since open(outfile, 'wb') *)

\* len bytes of one value
Fill(at, len, byte) ==
    [at |-> at, len |-> len, kind |-> "fill", fill |-> byte, bytes |-> <<>>, obj |-> <<>>]

\* the bytes of a bytearray
Bytes(at, bytes) ==
    [at |-> at, len |-> Len(bytes), kind |-> "bytes", fill |-> 0, bytes |-> bytes, obj |-> <<>>]

\* a packed structure kept as its fields (kind names the layout)
Struct(at, len, kind, obj) ==
    [at |-> at, len |-> len, kind |-> kind, fill |-> 0, bytes |-> <<>>, obj |-> <<obj>>]

\* f.truncate(size)
Truncate(size) ==
    [at |-> size, len |-> 0, kind |-> "truncate", fill |-> 0, bytes |-> <<>>, obj |-> <<>>]

\* a byte of a packed structure whose value the model does not spell out
OPAQUE == 0 - 1

Covers(e, x) == e.kind # "truncate" /\ e.at <= x /\ x < e.at + e.len

\* the byte an extent holds at file offset x
ExtentByte(e, x) ==
    CASE e.kind = "fill" -> e.fill
      [] e.kind = "bytes" -> e.bytes[x - e.at + 1]
      [] OTHER -> OPAQUE

\* the latest log entry that decides byte x: a write covering it, or a
\* truncation that cut it off; 0 if there is none
Decider(log, x) ==
    LET hits == {i \in 1..Len(log) : Covers(log[i], x) \/ (log[i].kind = "truncate" /\ log[i].at <= x)}
    IN IF hits = {} THEN 0 ELSE CHOOSE i \in hits : \A j \in hits : j <= i

\* the byte at offset x of the file (holes and never-written bytes read 0x00)
ByteAt(log, x) ==
    LET i == Decider(log, x)
    IN IF i = 0 \/ log[i].kind = "truncate" THEN 0 ELSE ExtentByte(log[i], x)

\* the length of the file
RECURSIVE FileLen(_)
FileLen(log) ==
    IF log = <<>> THEN 0
    ELSE LET e == log[Len(log)]
             before == FileLen(SubSeq(log, 1, Len(log) - 1))
         IN IF e.kind = "truncate" THEN e.at ELSE Max(before, e.at + e.len)

\* The offsets of [a, b) at which the file's content can change value: the
\* edges of every write, every offset of a write of explicit bytes, and the
\* given edges.  Between two consecutive such offsets the bytes are uniform.
SamplePoints(log, a, b, edges) ==
    { x \in ({a} \cup edges
             \cup UNION { {log[i].at, log[i].at + log[i].len} : i \in 1..Len(log) }
             \cup UNION { IF log[i].kind = "bytes"
                          THEN {x \in log[i].at..(log[i].at + log[i].len - 1) : x >= a /\ x < b}
                          ELSE {} : i \in 1..Len(log) }) : x >= a /\ x < b }

\* common.prepare_image: recreate the file and write 0x00 at size - 1
prepare_image(size) ==
    IF size # 0 THEN <<Bytes(size - 1, <<0>>)>> ELSE <<>>

\* common.insert_data: the child's bytes at offset, then pad_size copies of
\* padding_byte (pad = <<>> models bytes(0), the empty padding pattern)
insert_data(log, child, size, offset, pad) ==
    LET body == Append(log, Fill(offset, ChildSize(child), ChildFill(child)))
        pad_size == size - ChildSize(child)
    IN IF pad_size > 0 /\ pad # <<>>
       THEN Append(body, Fill(offset + ChildSize(child), pad_size, pad[1]))
       ELSE body

\* little-endian encoding of value in n bytes (struct.pack '<I', '<Q', '<H')
RECURSIVE LE(_, _)
LE(value, n) == IF n = 0 THEN <<>> ELSE <<value % 256>> \o LE(value \div 256, n - 1)

\* n zero bytes
Zeros(n) == [i \in 1..n |-> 0]

-----------------------------------------------------------------------------
(* hdimage: generate (image_hd.py, HdImageHandler.generate) *)

\* the loop over _write_partition_data: [log, err]
RECURSIVE HdWriteBodies(_, _, _)
HdWriteBodies(log, parts, i) ==
    IF i > Len(parts) THEN [log |-> log, err |-> NoError]
    ELSE LET part == parts[i] IN
      IF part.image = "" THEN HdWriteBodies(log, parts, i + 1)
      ELSE IF ~ChildExists(part.image)
      THEN [log |-> log, err |-> Raise("ImageError", "sub-image not found")]
      ELSE IF ChildSize(part.image) > part.size
      THEN [log |-> log, err |-> Raise("ImageError", "partition smaller than sub-image")]
      ELSE HdWriteBodies(insert_data(log, part.image, part.size, part.offset, <<>>), parts, i + 1)

\* _lba_to_chs
_lba_to_chs(lba) ==
    LET s == lba % 63
        c0 == lba \div 63
        h == c0 % 255
        c == c0 \div 255
    IN <<h, ((c \div 256) % 4) * 64 + (IF s # 0 THEN s + 1 ELSE 0), c % 256>>

\* common.parse_size applied to a partition_type: 0 for None and 0, the
\* number for a string such as "0x83", AttributeError for any other int
ParseTypeFails(pt) == pt.t = "int" /\ pt.v # 0
ParseType(pt) == IF pt.t = "str" THEN pt.v ELSE 0

\* the 16 bytes of a partition table entry
MbrEntryBytes(boot, ptype, relative_sectors, total_sectors, first_lba, last_lba) ==
    <<boot>> \o _lba_to_chs(first_lba) \o <<ptype>> \o _lba_to_chs(last_lba)
        \o LE(relative_sectors, 4) \o LE(total_sectors, 4)

\* fault: the entry stores byte counts instead of sector counts
_write_mbr_partition_entry_bytes(part) ==
    MbrEntryBytes(IF part.bootable THEN 128 ELSE 0, ParseType(part.partition_type),
                  part.offset, part.size, part.offset \div 512,
                  (part.offset \div 512) + (part.size \div 512) - 1)

\* _write_mbr_partition_entry
_write_mbr_partition_entry(part) ==
    LET relative_sectors == part.offset \div 512
        total_sectors == part.size \div 512
    IN MbrEntryBytes(IF part.bootable THEN 128 ELSE 0, ParseType(part.partition_type),
                     relative_sectors, total_sectors,
                     relative_sectors, relative_sectors + total_sectors - 1)

\* _write_hybrid_mbr_entry
_write_hybrid_mbr_entry(pv) ==
    LET total_sectors == (pv.gpt_location \div 512) + GPT_SECTORS - 2
    IN MbrEntryBytes(0, 238, 1, total_sectors, 1, 1 + total_sectors - 1)

\* the partitions _write_mbr gives an entry: in the table, not logical, first four
MbrPrimaries(parts) ==
    LET all == SelectSeq(parts, LAMBDA q : q.in_partition_table /\ ~q.logical)
    IN SubSeq(all, 1, Min(4, Len(all)))

RECURSIVE MbrEntries(_, _)
MbrEntries(prim, i) ==
    IF i > Len(prim) THEN <<>> ELSE _write_mbr_partition_entry(prim[i]) \o MbrEntries(prim, i + 1)

\* the 72 bytes _write_mbr writes at offset 440
MbrData(parts, pv) ==
    LET prim == MbrPrimaries(parts)
        entries == MbrEntries(prim, 1)
            \o (IF pv.table_type = TYPE_HYBRID /\ Len(prim) < 4 THEN _write_hybrid_mbr_entry(pv) ELSE <<>>)
        body == LE(pv.disksig, 4) \o <<0, 0>> \o entries
    IN body \o Zeros(70 - Len(body)) \o <<85, 170>>

\* _write_ebr_current_entry raises TypeError unless the type is an int
EbrCurrentFails(part) == part.partition_type.t # "int"

\* _write_ebr_current_entry
_write_ebr_current_entry(part, pv) ==
    LET relative_sectors == pv.align \div 512
        total_sectors == part.size \div 512
        base == (part.offset - pv.align) \div 512
    IN MbrEntryBytes(0, part.partition_type.v, relative_sectors, total_sectors,
                     relative_sectors + base, relative_sectors + total_sectors - 1 + base)

\* relative_sectors of _write_ebr_next_entry; struct.pack('<I') raises
\* struct.error when it is negative
NextEbrRelSectors(part, ext, pv) == (part.offset - pv.align - ext.offset) \div 512

\* _write_ebr_next_entry
_write_ebr_next_entry(part, ext, pv) ==
    LET total_sectors == (part.size + pv.align) \div 512
    IN MbrEntryBytes(0, PARTITION_TYPE_EXTENDED, NextEbrRelSectors(part, ext, pv), total_sectors,
                     ext.offset \div 512, (ext.offset \div 512) + total_sectors - 1)

\* the 512 bytes written for one logical partition
EbrData(part, ext, pv, has_prev) ==
    _write_ebr_current_entry(part, pv)
        \o (IF has_prev THEN _write_ebr_next_entry(part, ext, pv) ELSE Zeros(16))
        \o Zeros(478) \o <<85, 170>>

\* the loop of _write_ebrs over the logical partitions: [log, err]
RECURSIVE EbrLoop(_, _, _, _, _)
EbrLoop(log, logical, i, ext, pv) ==
    IF i > Len(logical) THEN [log |-> log, err |-> NoError]
    ELSE LET part == logical[i] IN
      IF EbrCurrentFails(part)
      THEN [log |-> log, err |-> Raise("TypeError", "partition type is not an integer")]
      ELSE IF i > 1 /\ NextEbrRelSectors(part, ext, pv) < 0
      THEN [log |-> log, err |-> Raise("struct.error", "argument out of range")]
      ELSE EbrLoop(Append(log, Bytes(part.offset - pv.align + 446, EbrData(part, ext, pv, i > 1))),
                   logical, i + 1, ext, pv)

\* _write_ebrs: [log, err]
_write_ebrs(log, parts, pv) ==
    LET logical == SelectSeq(parts, LAMBDA q : q.logical)
    IN IF pv.extended_partition = 0 \/ logical = <<>> THEN [log |-> log, err |-> NoError]
       ELSE EbrLoop(log, logical, 1, parts[pv.extended_partition], pv)

\* _write_mbr: [log, err]
_write_mbr(log, parts, pv) ==
    LET prim == MbrPrimaries(parts) IN
    IF \E i \in 1..Len(prim) : ParseTypeFails(prim[i].partition_type)
    THEN [log |-> log, err |-> Raise("AttributeError", "'int' object has no attribute 'strip'")]
    ELSE _write_ebrs(Append(log, Bytes(440, MbrData(parts, pv))), parts, pv)

\* zlib.crc32 as an uninterpreted, collision-free function: the checksum of
\* data is the term crc32(data); the all-zero field is CrcZero
CrcZero == [computed |-> FALSE, of |-> <<>>]
zlib_crc32(data) == [computed |-> TRUE, of |-> <<data>>]

\* GptHeader()
GptHeader ==
    [signature |-> "EFI PART", revision |-> 65536, header_size |-> 92, header_crc |-> CrcZero,
     reserved |-> 0, current_lba |-> 1, backup_lba |-> 0, first_usable_lba |-> 0,
     last_usable_lba |-> 0, disk_uuid |-> "", starting_lba |-> 2,
     number_entries |-> GPT_ENTRIES, entry_size |-> 128, table_crc |-> CrcZero]

\* _create_gpt_entry raises AttributeError for a partition without
\* partition-type-uuid (str has no attribute 'bytes')
GptEntryFails(part) == part.partition_type_uuid = ""

\* GPT_PARTITION_TYPES.get(shortcut.upper())
_get_gpt_partition_type(shortcut) ==
    IF shortcut = "L" THEN "0fc63daf-8483-4772-8e79-3d69d8477de4" ELSE ""

\* _create_gpt_entry (the partition's own UUID is drawn by uuid4())
_create_gpt_entry(part) ==
    [type_uuid |-> _get_gpt_partition_type(part.partition_type_uuid),
     uuid |-> "uuid4",
     first_lba |-> part.offset \div 512,
     last_lba |-> ((part.offset + part.size) \div 512) - 1,
     flags |-> IF part.bootable THEN 4 ELSE 0,
     name |-> part.name]

\* _collect_gpt_entries: the entries of the in-table partitions, in order
_collect_gpt_entries(parts) ==
    LET tbl == SelectSeq(parts, LAMBDA q : q.in_partition_table)
    IN [i \in 1..Len(tbl) |-> _create_gpt_entry(tbl[i])]

\* smallest offset of an in-table partition, None (here -1) if there is none
SmallestOffset(parts) ==
    LET offs == {parts[i].offset : i \in {k \in 1..Len(parts) : parts[k].in_partition_table}}
    IN IF offs = {} THEN 0 - 1 ELSE CHOOSE o \in offs : \A o2 \in offs : o <= o2

\* _build_gpt_table: the first GPT_ENTRIES entries (the rest of the
\* GPT_ENTRIES * 128 bytes stay zero)
_build_gpt_table(gpt_entries) == SubSeq(gpt_entries, 1, Min(GPT_ENTRIES, Len(gpt_entries)))

\* _build_gpt_header: packs the header as it is, header_crc included, sets
\* header.header_crc to the CRC of those 92 bytes and packs it at offset 16
_build_gpt_header(header) ==
    LET crc == zlib_crc32(header)
    IN [header |-> [header EXCEPT !.header_crc = crc],
        header_bytes |-> [header EXCEPT !.header_crc = crc]]

\* fault: the backup header's CRC is computed without zeroing the old one
BackupHeader_stale_crc(header, image_size) ==
    LET built == _build_gpt_header(header).header_bytes
        moved == [built EXCEPT !.current_lba = header.backup_lba,
                               !.backup_lba = 1,
                               !.starting_lba = (image_size \div 512) - GPT_SECTORS]
    IN [moved EXCEPT !.header_crc = zlib_crc32(moved)]

\* the backup header _write_gpt_backup builds from the primary one
BackupHeader(header, image_size) ==
    LET built == _build_gpt_header(header).header_bytes
        moved == [built EXCEPT !.current_lba = header.backup_lba,
                               !.backup_lba = 1,
                               !.starting_lba = (image_size \div 512) - GPT_SECTORS]
        zeroed == [moved EXCEPT !.header_crc = CrcZero]
    IN [zeroed EXCEPT !.header_crc = zlib_crc32(zeroed)]

\* _write_gpt_backup
_write_gpt_backup(log, header, table_data, image_size) ==
    log \o <<Struct(image_size - GPT_SECTORS * 512, GPT_ENTRIES * 128, "gpt_table", table_data),
             Struct(image_size - 512, 92, "gpt_header", BackupHeader(header, image_size))>>

\* _write_protective_mbr
_write_protective_mbr(log, pv, image_size) ==
    LET total_sectors == (image_size \div 512) - 1
        body == LE(pv.disksig, 4) \o <<0, 0>>
                  \o MbrEntryBytes(0, 238, 1, total_sectors, 1, 1 + total_sectors - 1)
    IN Append(log, Bytes(440, body \o Zeros(70 - Len(body)) \o <<85, 170>>))

\* _write_gpt: [log, err]
_write_gpt(log, parts, pv, image_size) ==
    IF \E i \in 1..Len(parts) : parts[i].in_partition_table /\ GptEntryFails(parts[i])
    THEN [log |-> log, err |-> Raise("AttributeError", "'str' object has no attribute 'bytes'")]
    ELSE
      LET smallest == SmallestOffset(parts)
          table_data == _build_gpt_table(_collect_gpt_entries(parts))
          header0 == [GptHeader EXCEPT
                        !.disk_uuid = "disk-uuid",
                        !.backup_lba = IF ~pv.gpt_no_backup THEN (image_size \div 512) - 1 ELSE 1,
                        !.last_usable_lba = (image_size \div 512) - 1 - GPT_SECTORS,
                        !.starting_lba = pv.gpt_location \div 512,
                        !.first_usable_lba = (IF smallest < 0
                                              THEN pv.gpt_location + (GPT_SECTORS - 1) * 512
                                              ELSE smallest) \div 512,
                        !.table_crc = zlib_crc32(table_data)]
          built == _build_gpt_header(header0)
          primary == log \o <<Struct(512, 92, "gpt_header", built.header_bytes),
                              Struct(pv.gpt_location, GPT_ENTRIES * 128, "gpt_table", table_data)>>
          backup == IF ~pv.gpt_no_backup
                    THEN _write_gpt_backup(primary, built.header, table_data, image_size)
                    ELSE primary
      IN IF pv.table_type = TYPE_HYBRID
         THEN _write_mbr(backup, parts, pv)
         ELSE [log |-> _write_protective_mbr(backup, pv, image_size), err |-> NoError]

\* _write_toc: the 64-byte records of the entries captured by setup
_write_toc(log, pv) ==
    IF ~pv.toc_enable \/ pv.toc_num = 0 \/ pv.toc_entries = <<>> THEN log
    ELSE Append(log, Struct(pv.toc_offset, pv.toc_num * 64, "toc", pv.toc_entries))

-----------------------------------------------------------------------------
(* hdimage: the configurations explored *)

PartName(i) == CASE i = 1 -> "p1" [] i = 2 -> "p2" [] i = 3 -> "p3" [] i = 4 -> "p4" [] OTHER -> "p5"

\* partition blocks a configuration may declare (named by their position);
\* the type code 0x83 = 131 is PtStr(131) when written "0x83", which the
\* parser leaves a string, and PtInt(131) when written "131":
\* Partition(name, in-partition-table, offset, size, image, partition-type,
\*           partition-type-uuid, bootable, autoresize, forced-primary)
HdPartChoices(table) ==
    CASE table = "none" ->
        { Partition("", TRUE, 0, 1024, "a", PtNone, "", FALSE, FALSE, FALSE),
          Partition("", TRUE, 0, 0, "b", PtNone, "", FALSE, FALSE, FALSE),
          Partition("", TRUE, 1024, 1024, "a", PtNone, "", FALSE, FALSE, FALSE),
          Partition("", TRUE, 1536, 512, "b", PtNone, "", FALSE, FALSE, FALSE),
          Partition("", FALSE, 2048, 600, "a", PtNone, "", FALSE, FALSE, FALSE),
          Partition("", TRUE, 0, 512, "", PtNone, "", FALSE, FALSE, FALSE) }
      [] table = "mbr" ->
        { Partition("", TRUE, 0, 1024, "a", PtStr(131), "", TRUE, FALSE, FALSE),
          Partition("", TRUE, 0, 0, "b", PtInt(131), "", FALSE, FALSE, FALSE),
          Partition("", TRUE, 1024, 1024, "a", PtStr(131), "", FALSE, FALSE, FALSE),
          Partition("", TRUE, 1024, 512, "b", PtInt(131), "", FALSE, FALSE, FALSE),
          Partition("", TRUE, 0, 512, "", PtNone, "", FALSE, FALSE, FALSE),
          Partition("", TRUE, 512, 512, "b", PtStr(131), "", FALSE, TRUE, FALSE),
          Partition("", FALSE, 2048, 600, "a", PtNone, "", FALSE, FALSE, FALSE),
          Partition("", TRUE, 0, 700, "a", PtStr(131), "", FALSE, FALSE, FALSE),
          Partition("", TRUE, 1000, 512, "b", PtStr(131), "", FALSE, FALSE, FALSE) }
      [] table = "gpt" ->
        { Partition("", TRUE, 0, 1024, "a", PtNone, "L", TRUE, FALSE, FALSE),
          Partition("", TRUE, 0, 0, "b", PtNone, "L", FALSE, FALSE, FALSE),
          Partition("", TRUE, 0, 512, "b", PtNone, "", FALSE, FALSE, FALSE),
          Partition("", TRUE, 32768, 512, "b", PtNone, "L", FALSE, FALSE, FALSE),
          Partition("", FALSE, 20480, 600, "a", PtNone, "", FALSE, FALSE, FALSE),
          Partition("", TRUE, 17408, 512, "b", PtNone, "L", FALSE, TRUE, FALSE),
          Partition("", TRUE, 0, 512, "b", PtStr(131), "L", FALSE, FALSE, FALSE) }
      [] table = "hybrid" ->
        { Partition("", TRUE, 0, 1024, "a", PtStr(131), "L", TRUE, FALSE, FALSE),
          Partition("", TRUE, 0, 0, "b", PtNone, "L", FALSE, FALSE, FALSE),
          Partition("", TRUE, 0, 512, "b", PtInt(131), "L", FALSE, FALSE, FALSE),
          Partition("", FALSE, 20480, 600, "a", PtNone, "", FALSE, FALSE, FALSE) }

\* the partition lists: up to MaxParts blocks
HdPartLists(table) ==
    UNION { [1..n -> HdPartChoices(table)] : n \in 1..MaxParts }

NameParts(ps) == [i \in 1..Len(ps) |-> [ps[i] EXCEPT !.name = PartName(i)]]

HdConfig(table, x, nb, toc, sig) ==
    [table |-> table, align |-> 512, extended_partition |-> x, gpt_location |-> 1024,
     gpt_no_backup |-> nb, toc |-> toc, toc_offset |-> 0, disk_signature |-> sig]

\* a disk signature as int("0x12345678", 0) reads it
SIGNATURE == 18 * 16777216 + 52 * 65536 + 86 * 256 + 120

HdConfigs ==
    { HdConfig("none", 0, FALSE, toc, 0) : toc \in BOOLEAN }
    \cup { HdConfig("mbr", x, FALSE, toc, IF toc THEN 0 ELSE SIGNATURE) : x \in {0, 1, 2}, toc \in BOOLEAN }
    \cup { HdConfig("gpt", 0, nb, toc, 0) : nb \in BOOLEAN, toc \in BOOLEAN }
    \cup { HdConfig("gpt", 0, FALSE, FALSE, SIGNATURE) }
    \cup { HdConfig("hybrid", 0, nb, FALSE, SIGNATURE) : nb \in BOOLEAN }

\* the configured image sizes (0 = not configured)
HdImageSizes(table) == IF table \in {"gpt", "hybrid"} THEN {0, 65536, 66000} ELSE {0, 4096}

\* Number of partition blocks of the longer hybrid configurations.
HdHybridParts == 4

\* hybrid configurations of HdHybridParts partitions, each one in the
\* table with a partition-type, in the table without one (none, or 0), or
\* out of the table with one
HdHybridLists ==
    [1..HdHybridParts ->
        { Partition("", TRUE, 0, 512, "b", PtStr(131), "L", FALSE, FALSE, FALSE),
          Partition("", TRUE, 0, 512, "b", PtNone, "L", FALSE, FALSE, FALSE),
          Partition("", TRUE, 0, 512, "b", PtInt(0), "L", FALSE, FALSE, FALSE),
          Partition("", FALSE, 0, 512, "b", PtStr(131), "", FALSE, FALSE, FALSE) }]

\* Number of partition blocks of the configurations with an extended partition.
HdExtendedParts == 3

\* the i-th partition block of such a configuration: in the table with its
\* offset left to the layout, in the table with an explicit offset, in the
\* table and forced-primary, or outside the table
HdExtendedPart(kind, i) ==
    CASE kind = "auto" -> Partition("", TRUE, 0, 512, "b", PtInt(131), "", FALSE, FALSE, FALSE)
      [] kind = "explicit" -> Partition("", TRUE, 2048 * i, 512, "b", PtInt(131), "", FALSE, FALSE, FALSE)
      [] kind = "forced" -> Partition("", TRUE, 0, 512, "b", PtInt(131), "", FALSE, FALSE, TRUE)
      [] kind = "out" -> Partition("", FALSE, 16384 + 1024 * i, 512, "b", PtNone, "", FALSE, FALSE, FALSE)

HdExtendedLists ==
    { [i \in 1..HdExtendedParts |-> HdExtendedPart(kinds[i], i)] :
        kinds \in [1..HdExtendedParts -> {"auto", "explicit", "forced", "out"}] }

InitHd ==
    /\ handler = "hd"
    /\ \/ /\ config \in HdConfigs
          /\ \E ps \in HdPartLists(config.table), sz \in HdImageSizes(config.table) :
                image = [size |-> sz, size_str |-> sz, partitions |-> NameParts(ps)]
       \/ /\ config = HdConfig("hybrid", 0, FALSE, FALSE, SIGNATURE)
          /\ \E ps \in HdHybridLists :
                image = [size |-> 65536, size_str |-> 65536, partitions |-> NameParts(ps)]
       \/ /\ config \in {HdConfig("mbr", k, FALSE, FALSE, 0) : k \in 1..HdExtendedParts}
          /\ \E ps \in HdExtendedLists :
                image = [size |-> 0, size_str |-> 0, partitions |-> NameParts(ps)]
    /\ priv = HdParseConfig(config)
    /\ outfile = <<>>
    /\ pc = "start"
    /\ error = NoException

\* HdImageHandler.setup
HdSetup ==
    /\ handler = "hd" /\ pc = "start"
    /\ LET r == HdSetupResult(config, image) IN
         /\ image' = [image EXCEPT !.size = r.size, !.partitions = r.parts]
         /\ priv' = r.pv
         /\ error' = IF r.err = NoError THEN NoException ELSE Raised(r.err, "setup")
         /\ pc' = IF r.err = NoError THEN "setup_ok" ELSE "error"
    /\ UNCHANGED <<handler, config, outfile>>

\* generate re-raises every exception as ImageError("Failed to generate image: ...")
GenerateError(err, during) ==
    IF err = NoError THEN NoException ELSE Raised(Raise("ImageError", err.msg), during)

\* generate, first part: prepare_image, _ensure_extended_partition_index and
\* the partition bodies
HdGenerateBodies ==
    /\ handler = "hd" /\ pc = "setup_ok"
    /\ LET r == HdWriteBodies(prepare_image(image.size), image.partitions, 1) IN
         /\ outfile' = r.log
         /\ error' = GenerateError(r.err, "bodies")
         /\ pc' = IF r.err = NoError THEN "bodies_ok" ELSE "error"
    /\ priv' = _ensure_extended_partition_index(priv, image.partitions)
    /\ UNCHANGED <<handler, config, image>>

\* generate, second part: the partition table (_write_gpt or _write_mbr)
HdGenerateTable ==
    /\ handler = "hd" /\ pc = "bodies_ok"
    /\ LET r == IF HasFlag(priv.table_type, TYPE_GPT)
                THEN _write_gpt(outfile, image.partitions, priv, image.size)
                ELSE IF HasFlag(priv.table_type, TYPE_MBR)
                THEN _write_mbr(outfile, image.partitions, priv)
                ELSE [log |-> outfile, err |-> NoError]
       IN
         /\ outfile' = r.log
         /\ error' = GenerateError(r.err, "table")
         /\ pc' = IF r.err = NoError THEN "table_ok" ELSE "error"
    /\ UNCHANGED <<handler, config, image, priv>>

\* generate, last part: _write_toc
HdGenerateToc ==
    /\ handler = "hd" /\ pc = "table_ok"
    /\ outfile' = _write_toc(outfile, priv)
    /\ pc' = "done"
    /\ UNCHANGED <<handler, config, image, priv, error>>

NextHd == HdSetup \/ HdGenerateBodies \/ HdGenerateTable \/ HdGenerateToc

SpecHd == InitHd /\ [][NextHd]_vars

-----------------------------------------------------------------------------
(* Reading the output file back *)

\* the unsigned little-endian number stored in the n bytes at offset at
RECURSIVE FieldLE(_, _, _)
FieldLE(log, at, n) == IF n = 0 THEN 0 ELSE ByteAt(log, at) + 256 * FieldLE(log, at + 1, n - 1)

\* every byte of [a, b) reads as byte
AllBytes(log, a, b, byte) == \A x \in SamplePoints(log, a, b, {}) : ByteAt(log, x) = byte

\* no write after log[i] touches the bytes log[i] wrote
Intact(log, i) ==
    \A j \in (i + 1)..Len(log) :
        /\ ~(log[j].kind = "truncate" /\ log[j].at < log[i].at + log[i].len)
        /\ ~(log[j].kind # "truncate" /\ log[j].at < log[i].at + log[i].len
                                       /\ log[i].at < log[j].at + log[j].len)

\* the file holds, at offset at, exactly the structure of this kind that
\* was last written there
HoldsStruct(log, at, kind) ==
    LET i == Decider(log, at)
    IN i # 0 /\ log[i].kind = kind /\ log[i].at = at /\ Intact(log, i)

StructAt(log, at) == log[Decider(log, at)].obj[1]

-----------------------------------------------------------------------------
(* hdimage: properties *)

HdParts == image.partitions

\* setup() has returned normally
HdSetupSucceeded ==
    handler = "hd" /\ (pc \in {"setup_ok", "bodies_ok", "table_ok", "done"}
                       \/ (pc = "error" /\ error.during # "setup"))

\* generate() has returned normally: the file is finished
HdFinished == handler = "hd" /\ pc = "done"

\* the bytes of a partition's range are the child image followed by 0x00
HdRangeHoldsChild(log, part) ==
    LET body_end == part.offset + ChildSize(part.image)
    IN \A x \in SamplePoints(log, part.offset, part.offset + part.size, {body_end}) :
           ByteAt(log, x) = IF x < body_end THEN ChildFill(part.image) ELSE 0

\* no byte of the partition's range differs between the two files
HdRangeUnchanged(before, after, part) ==
    \A x \in SamplePoints(before, part.offset, part.offset + part.size, {})
             \cup SamplePoints(after, part.offset, part.offset + part.size, {}) :
        ByteAt(after, x) = ByteAt(before, x)

\* C1, first half: in the finished file every partition with a child image
\* holds the child's bytes in [offset, offset + child_size) and 0x00 up to
\* offset + size.
C1_FinishedRanges ==
    HdFinished => \A i \in 1..Len(HdParts) : HdParts[i].image # "" => HdRangeHoldsChild(outfile, HdParts[i])

\* C1, second half: a step of generate that follows the body writes (the
\* MBR/GPT and EBR writes, the TOC write) changes no byte of the range of a
\* partition with a child image.
C1_TableStepKeepsRanges ==
    (handler = "hd" /\ pc \in {"bodies_ok", "table_ok"}) =>
        \A i \in 1..Len(HdParts) : HdParts[i].image # "" => HdRangeUnchanged(outfile, outfile', HdParts[i])

\* C1: after hdimage generate each partition range holds its child image
\* then zeros, and the table, EBR and TOC writes that follow the body writes
\* change no byte inside any such range.
C1_BodyRangesKept == [](C1_FinishedRanges) /\ [][C1_TableStepKeepsRanges]_vars

\* C2: after a successful hdimage setup any two distinct partitions with
\* in_partition_table = true, user-declared or synthetic, occupy disjoint
\* byte intervals.
C2_InTableDisjoint ==
    HdSetupSucceeded =>
        \A i, j \in 1..Len(HdParts) :
            (i # j /\ HdParts[i].in_partition_table /\ HdParts[j].in_partition_table)
                => ~Intersect(HdParts[i], HdParts[j])

\* C3: after a successful hdimage setup every partition, bookkeeping
\* included, has offset % align = 0 and every in-table partition has
\* size % 512 = 0, also when the size was set by autoresize or, for
\* [Extended], after its own check.
C3_AlignedOffsetsAndSizes ==
    HdSetupSucceeded =>
        \A i \in 1..Len(HdParts) :
            /\ HdParts[i].align > 0
            /\ HdParts[i].offset % HdParts[i].align = 0
            /\ HdParts[i].in_partition_table => HdParts[i].size % 512 = 0

\* C3 witness: setup succeeded with an [Extended] partition, whose size is
\* set while the logical partitions are placed.
C3_Witness ==
    /\ handler = "hd" /\ pc = "setup_ok"
    /\ \E i \in 1..Len(HdParts) : HdParts[i].name = "[Extended]" /\ HdParts[i].size > 512
    /\ \E i \in 1..Len(HdParts) : HdParts[i].logical /\ HdParts[i].image # ""

\* C4: after a successful hdimage setup image.size is at least
\* offset + size of every partition, user or bookkeeping, whether the size
\* was configured or derived; a placement past a configured size is rejected.
C4_ImageHoldsPartitions ==
    HdSetupSucceeded => \A i \in 1..Len(HdParts) : image.size >= HdParts[i].offset + HdParts[i].size

\* C4 witness: setup succeeded on a configured image size that a partition
\* fills to its last byte.
C4_Witness ==
    /\ handler = "hd" /\ pc = "setup_ok" /\ image.size_str # 0
    /\ \E i \in 1..Len(HdParts) : HdParts[i].name = "p1" /\ HdParts[i].offset + HdParts[i].size = image.size

\* the partitions the MBR describes: in the table and not logical, in list order
HdPrimaryParts == SelectSeq(HdParts, LAMBDA q : q.in_partition_table /\ ~q.logical)

\* the type code of a partition as the configuration states it
HdTypeCode(part) == IF part.partition_type.t = "none" THEN 0 ELSE part.partition_type.v

\* C5: in a finished hdimage with partition-table-type mbr, sector 0 holds
\* the configured disk signature as a little-endian u32 at byte 440, 0x55
\* 0xAA at bytes 510 and 511, and for i < 4 the entry at 446 + 16 i describes
\* the i-th in-table non-logical partition (boot flag 0x80 iff bootable, its
\* type, relative_sectors = offset / 512, total_sectors = size / 512);
\* entries after the last such partition are zero.
C5_MbrSector ==
    (HdFinished /\ config.table = "mbr") =>
        /\ FieldLE(outfile, 440, 4) = config.disk_signature
        /\ ByteAt(outfile, 510) = 85 /\ ByteAt(outfile, 511) = 170
        /\ \A i \in 0..3 :
             LET at == 446 + 16 * i IN
             IF i < Len(HdPrimaryParts)
             THEN LET part == HdPrimaryParts[i + 1] IN
                  /\ ByteAt(outfile, at) = (IF part.bootable THEN 128 ELSE 0)
                  /\ ByteAt(outfile, at + 4) = HdTypeCode(part)
                  /\ FieldLE(outfile, at + 8, 4) * 512 = part.offset
                  /\ FieldLE(outfile, at + 12, 4) * 512 = part.size
             ELSE AllBytes(outfile, at, at + 16, 0)

\* C5 witness: a finished MBR image with a disk signature and two primary
\* partitions, the first bootable.
C5_Witness ==
    /\ HdFinished /\ config.table = "mbr" /\ config.disk_signature # 0
    /\ Len(HdPrimaryParts) = 2 /\ HdPrimaryParts[1].bootable /\ ~HdPrimaryParts[2].bootable

\* a stored header checksum is the CRC-32 of the header with the field zeroed
GptHeaderCrcValid(header) == header.header_crc = zlib_crc32([header EXCEPT !.header_crc = CrcZero])

\* C6: in a finished hdimage with a GPT and backup enabled, the primary
\* header at byte 512 carries a CRC-32 valid over its 92 bytes with the CRC
\* field zeroed, its table_crc32 is the CRC-32 of the 128 x 128 byte array
\* stored at gpt-location, and the backup header in the last 512 bytes has
\* current_lba = size/512 - 1, backup_lba = 1, starting_lba = size/512 - 33
\* (the backup array precedes it) and a CRC valid over its own bytes.
C6_GptHeaders ==
    (HdFinished /\ HasFlag(priv.table_type, TYPE_GPT) /\ ~priv.gpt_no_backup) =>
        /\ HoldsStruct(outfile, 512, "gpt_header")
        /\ HoldsStruct(outfile, priv.gpt_location, "gpt_table")
        /\ HoldsStruct(outfile, image.size - GPT_SECTORS * 512, "gpt_table")
        /\ HoldsStruct(outfile, image.size - 512, "gpt_header")
        /\ FileLen(outfile) = image.size
        /\ LET primary == StructAt(outfile, 512)
               backup == StructAt(outfile, image.size - 512)
           IN /\ GptHeaderCrcValid(primary)
              /\ primary.table_crc = zlib_crc32(StructAt(outfile, priv.gpt_location))
              /\ backup.current_lba = (image.size \div 512) - 1
              /\ backup.backup_lba = 1
              /\ backup.starting_lba = (image.size \div 512) - GPT_SECTORS
              /\ GptHeaderCrcValid(backup)
              /\ backup.table_crc = zlib_crc32(StructAt(outfile, image.size - GPT_SECTORS * 512))

\* C6 witness: a finished GPT image with a backup and two table entries.
C6_Witness ==
    /\ HdFinished /\ config.table = "gpt" /\ ~priv.gpt_no_backup
    /\ Len(StructAt(outfile, priv.gpt_location)) = 2

-----------------------------------------------------------------------------
(* Constants of image_kd.py *)

MEDIUM_TYPE_MMC == 0
MEDIUM_TYPE_SPI_NAND == 1
MEDIUM_TYPE_SPI_NOR == 2
KDIMG_CONTENT_START_OFFSET == 65536
KD_PART_ENTRY_ALIGN == 256
KD_HEADER_ALIGN == 512

-----------------------------------------------------------------------------
(* kdimage: setup (image_kd.py, KdImageHandler.setup) *)

\* common.Partition as genimage.py builds it for a kdimage partition block
KdPartition(name, in_tbl, offset, size, img, ptype, ptuuid) ==
    Partition(name, in_tbl, offset, size, img, ptype, ptuuid, FALSE, FALSE, FALSE)
        @@ [erase_size |-> 0, load |-> FALSE, boot |-> 0]

\* a virtual partition: everything but name, offset, size at its default
KdVirtual(name, offset, size) == KdPartition(name, FALSE, offset, size, "", PtNone, "")

\* KdImgHdr()
KdImgHdr ==
    [img_hdr_crc32 |-> CrcZero, img_hdr_flag |-> 0, img_hdr_version |-> 2,
     part_tbl_num |-> 0, part_tbl_crc32 |-> CrcZero,
     image_info |-> "", chip_info |-> "", board_info |-> ""]

\* KdPrivateData(); image_write_offset is the local variable of
\* _write_partition_data that carries the content cursor
KdPrivateData ==
    [header |-> KdImgHdr, file_size |-> 0, table_type |-> "", medium_type |-> "mmc",
     gpt_location |-> 0, gpt_no_backup |-> FALSE, disksig |-> 0, part_records |-> <<>>,
     toc_enable |-> FALSE, toc_offset |-> 0, toc_num |-> 0, toc_entries |-> <<>>,
     image_write_offset |-> 0]

\* _parse_config: [pv, err]; the keys it reads are image_info, chip_info,
\* board_info, partition-table-type, gpt-location, gpt-no-backup, toc and
\* toc-offset
KdParseConfig(pv, cfg) ==
    LET h1 == [pv.header EXCEPT !.image_info = cfg.image_info]
        h2 == [h1 EXCEPT !.chip_info = cfg.chip_info]
        h3 == [h2 EXCEPT !.board_info = cfg.board_info]
    IN IF cfg.image_info = ""
       THEN [pv |-> [pv EXCEPT !.header = h1], err |-> Raise("ValueError", "Can not get 'image_info'")]
       ELSE IF cfg.chip_info = ""
       THEN [pv |-> [pv EXCEPT !.header = h2], err |-> Raise("ValueError", "Can not get 'chip_info'")]
       ELSE IF cfg.board_info = ""
       THEN [pv |-> [pv EXCEPT !.header = h3], err |-> Raise("ValueError", "Can not get 'board_info'")]
       ELSE [pv |-> [pv EXCEPT !.header = h3, !.table_type = cfg.table,
                               !.gpt_location = cfg.gpt_location,
                               !.gpt_no_backup = cfg.gpt_no_backup,
                               !.toc_enable = cfg.toc, !.toc_offset = cfg.toc_offset],
             err |-> NoError]

\* _validate_config and _validate_config_parameters: [pv, err].  Both type
\* names are read from priv, where the table type was put by _parse_config
\* and the medium type by the constructor.
KdValidateConfig(pv) ==
    IF pv.table_type \notin {"none", "mbr", "dos", "gpt"}
    THEN [pv |-> pv, err |-> Raise("ImageError", "partition table type is not supported")]
    ELSE LET tt == CASE pv.table_type = "none" -> TYPE_NONE
                     [] pv.table_type \in {"mbr", "dos"} -> TYPE_MBR
                     [] pv.table_type = "gpt" -> TYPE_GPT
             p1 == [pv EXCEPT !.table_type = tt]
         IN IF pv.medium_type \notin {"mmc", "spi_nand", "spi_nor"}
            THEN [pv |-> p1, err |-> Raise("ValueError", "not a valid medium-type")]
            ELSE LET p2 == [p1 EXCEPT !.medium_type =
                                CASE pv.medium_type = "mmc" -> MEDIUM_TYPE_MMC
                                  [] pv.medium_type = "spi_nand" -> MEDIUM_TYPE_SPI_NAND
                                  [] pv.medium_type = "spi_nor" -> MEDIUM_TYPE_SPI_NOR]
                 IN IF HasFlag(tt, TYPE_GPT) /\ pv.gpt_location % 512 # 0
                    THEN [pv |-> p2, err |-> Raise("ImageError", "gpt location must be a multiple of 512")]
                    ELSE [pv |-> p2, err |-> NoError]

\* _add_virtual_partitions: the partitions appended to image.partitions
_add_virtual_partitions(pv) ==
    (IF HasFlag(pv.table_type, TYPE_MBR)
     THEN <<KdVirtual("partition_table_mbr", 0, 512)>>
     ELSE IF pv.table_type = TYPE_GPT
     THEN <<KdVirtual("partition_table_gpt_header", 512, 512),
            KdVirtual("partition_table_gpt_array",
                      IF pv.gpt_location # 0 THEN pv.gpt_location ELSE 2 * 512,
                      (GPT_SECTORS - 1) * 512)>>
          \o (IF ~pv.gpt_no_backup
              THEN <<KdVirtual("partition_table_gpt_backup", 64 * 1024, GPT_SECTORS * 512)>>
              ELSE <<>>)
     ELSE <<>>)
    \o (IF pv.toc_enable THEN <<KdVirtual("partition_toc", pv.toc_offset, 64)>> ELSE <<>>)

\* KdImageHandler._setup_toc_partitions: [parts, pv]
KdSetupTocPartitions(parts, pv) ==
    LET listed == SelectSeq(parts, LAMBDA q : ~IsBracketed(q.name))
        entries == [i \in 1..Len(listed) |->
                      [partition_name |-> listed[i].name, load |-> IF listed[i].load THEN 1 ELSE 0,
                       boot |-> listed[i].boot, partition_offset |-> listed[i].offset,
                       partition_size |-> listed[i].size]]
        index_count == Len(entries)
    IN IF ~pv.toc_enable \/ index_count = 0 THEN [parts |-> parts, pv |-> pv]
       ELSE [parts |-> [i \in 1..Len(parts) |->
                          IF parts[i].name = "partition_toc"
                             /\ \A j \in 1..(i - 1) : parts[j].name # "partition_toc"
                          THEN [parts[i] EXCEPT !.size = 64 * index_count] ELSE parts[i]],
             pv |-> [pv EXCEPT !.toc_num = index_count, !.toc_entries = entries]]

\* _parse_part_uuid: [part, err]
_parse_part_uuid(part, pv) ==
    LET p1 == IF pv.table_type = TYPE_NONE THEN [part EXCEPT !.in_partition_table = FALSE] ELSE part
    IN IF p1.partition_type_uuid # "" /\ ~HasFlag(pv.table_type, TYPE_GPT)
       THEN [part |-> p1, err |-> Raise("ValueError", "'partition-type-uuid' is only valid for gpt and hybrid")]
       ELSE IF PtTruthy(p1.partition_type) /\ ~HasFlag(pv.table_type, TYPE_MBR)
       THEN [part |-> p1, err |-> Raise("ValueError", "'partition-type' is only valid for mbr and hybrid")]
       ELSE IF HasFlag(pv.table_type, TYPE_GPT) /\ p1.in_partition_table
       THEN \* GPT_PARTITION_TYPES.get(...) is a str or None: neither has .bytes
            [part |-> IF p1.partition_type_uuid = "" THEN [p1 EXCEPT !.partition_type_uuid = "L"] ELSE p1,
             err |-> Raise("AttributeError", "object has no attribute 'bytes'")]
       ELSE [part |-> p1, err |-> NoError]

\* one pass of the loop of KdImageHandler._calculate_partition_offsets, for
\* image.partitions[i]; st = [parts, pv, err]
KdPartStep(st, i) ==
    LET u == _parse_part_uuid(st.parts[i], st.pv)
        part == u.part
        child_size == ChildSize(part.image)
        sized == IF part.size = 0 THEN [part EXCEPT !.size = _roundup(child_size, 4096)] ELSE part
    IN IF u.err # NoError THEN [st EXCEPT !.parts[i] = part, !.err = u.err]
       ELSE IF part.image = "" THEN [st EXCEPT !.parts[i] = part]
       ELSE IF ~ChildExists(part.image)
       THEN [st EXCEPT !.parts[i] = part, !.err = Raise("ImageError", "Subimage not found")]
       ELSE IF sized.size = 0 \/ child_size > sized.size
       THEN [st EXCEPT !.parts[i] = sized,
                       !.err = Raise("ImageError", "Setup failed, partition size too small")]
       ELSE [st EXCEPT !.parts[i] = sized,
                       !.pv.file_size = @ + _roundup(sized.size, 4096)]

\* the passes lo..hi of that loop, in order, stopping at the first exception
RECURSIVE KdPartLoop(_, _, _)
KdPartLoop(st, lo, hi) ==
    IF st.err # NoError \/ lo > hi THEN st
    ELSE IF lo = hi THEN KdPartStep(st, lo)
    ELSE LET mid == (lo + hi) \div 2
         IN KdPartLoop(KdPartLoop(st, lo, mid), mid + 1, hi)

\* sorted(partitions, key=lambda p: p.offset): the indices of the partitions
\* in ascending offset, equal offsets in list order
SortedByOffset(parts) ==
    LET n == Len(parts)
        \* rank[k]: how many partitions the sort puts before parts[k]
        rank == SubSeq([k \in 1..n |->
                          Cardinality({j \in 1..n : parts[j].offset < parts[k].offset
                                                    \/ (parts[j].offset = parts[k].offset /\ j < k)})],
                       1, n)
    IN SubSeq([r \in 1..n |-> CHOOSE k \in 1..n : rank[k] = r - 1], 1, n)

\* _has_overlapping_partitions raises
_has_overlapping_partitions(parts) ==
    LET order == SortedByOffset(parts)
    IN \E i \in 2..Len(order) :
           parts[order[i]].offset < parts[order[i - 1]].offset + parts[order[i - 1]].size

\* KdImageHandler._calculate_partition_offsets: [parts, pv, err]
KdCalculatePartitionOffsets(parts0, pv0) ==
    LET t == KdSetupTocPartitions(parts0, [pv0 EXCEPT !.file_size = KDIMG_CONTENT_START_OFFSET])
        l == KdPartLoop([parts |-> t.parts, pv |-> t.pv, err |-> NoError], 1, Len(t.parts))
    IN IF l.err # NoError THEN l
       ELSE IF _has_overlapping_partitions(l.parts)
       THEN [l EXCEPT !.err = Raise("ImageError", "partitions overlap")]
       ELSE IF l.pv.table_type = TYPE_MBR /\ InTableCount(l.parts) > 4
       THEN [l EXCEPT !.err = Raise("ImageError", "MBR supports a maximum of 4 primary partitions")]
       ELSE l

\* KdImageHandler.setup: [parts, pv, err]
KdSetupResult(cfg, parts0, pv0) ==
    LET c == KdParseConfig(pv0, cfg) IN
    IF c.err # NoError THEN [parts |-> parts0, pv |-> c.pv, err |-> c.err]
    ELSE LET v == KdValidateConfig(c.pv) IN
    IF v.err # NoError THEN [parts |-> parts0, pv |-> v.pv, err |-> v.err]
    ELSE KdCalculatePartitionOffsets(parts0 \o _add_virtual_partitions(v.pv), v.pv)

-----------------------------------------------------------------------------
(* kdimage: generate (image_kd.py, KdImageHandler.generate) *)

\* the sorted sequence of a finite set of numbers
RECURSIVE SortedSeq(_)
SortedSeq(S) ==
    IF S = {} THEN <<>>
    ELSE LET m == CHOOSE m \in S : \A x \in S : m <= x IN <<m>> \o SortedSeq(S \ {m})

\* What the file holds at offset x, relative to a region starting at a: a
\* byte value, or the packed structure written there (named by its layout,
\* its fields and where it starts relative to the region).
CellAt(log, x, a) ==
    LET i == Decider(log, x)
    IN IF i = 0 \/ log[i].kind = "truncate" THEN [kind |-> "byte", v |-> 0, obj |-> <<>>]
       ELSE IF log[i].kind \in {"fill", "bytes"}
       THEN [kind |-> "byte", v |-> ExtentByte(log[i], x), obj |-> <<>>]
       ELSE [kind |-> log[i].kind, v |-> log[i].at - a, obj |-> log[i].obj]

\* f.seek(offset); f.read(size): the content of the region, as the list of
\* the places where it changes value (two regions hold the same bytes
\* exactly when these lists are equal).  A read stops at the end of file.
FileContent(log, offset, size) ==
    LET stop == Min(offset + size, FileLen(log))
        pts == SortedSeq(SamplePoints(log, offset, stop, {}))
        keep == SelectSeq([i \in 1..Len(pts) |-> i],
                          LAMBDA i : i = 1 \/ CellAt(log, pts[i], offset) # CellAt(log, pts[i - 1], offset))
    IN [len |-> Max(stop - offset, 0),
        runs |-> [k \in 1..Len(keep) |-> [at |-> pts[keep[k]] - offset,
                                           cell |-> CellAt(log, pts[keep[k]], offset)]]]

\* hashlib.sha256(data).digest()
hashlib_sha256(data) == [sha256_of |-> data]

\* KdImageHandler._calculate_sha256
_calculate_sha256(log, offset, size) == hashlib_sha256(FileContent(log, offset, size))

\* common.insert_data for a source file given as its own write log: the
\* file_size bytes of the source at offset, then pad_size copies of
\* padding_byte
insert_file(log, src, file_size, size, offset, pad) ==
    LET body == log \o <<Fill(offset, file_size, 0)>>
                    \o [i \in 1..Len(src) |-> [src[i] EXCEPT !.at = @ + offset]]
        pad_size == size - file_size
    IN IF pad_size > 0 /\ pad # <<>>
       THEN Append(body, Fill(offset + file_size, pad_size, pad[1]))
       ELSE body

\* KdImageHandler._generate_mbr: the temporary 512-byte file, [src, size, err].
\* Its 72 bytes at offset 440 are built as HdImageHandler._write_mbr builds
\* them (same entries, same parse_size of the partition type).
_generate_mbr(parts, pv) ==
    IF \E i \in 1..Len(MbrPrimaries(parts)) : ParseTypeFails(MbrPrimaries(parts)[i].partition_type)
    THEN [src |-> <<>>, size |-> 0, err |-> Raise("AttributeError", "'int' object has no attribute 'strip'")]
    ELSE [src |-> prepare_image(512) \o <<Bytes(440, MbrData(parts, pv))>>, size |-> 512, err |-> NoError]

\* KdImageHandler._generate_toc_partition: the temporary file, [src, size, err]
_generate_toc_partition(pv) ==
    LET toc_size == Max(64, Len(pv.toc_entries) * 64)
    IN IF pv.toc_entries = <<>>
       THEN [src |-> prepare_image(toc_size), size |-> toc_size, err |-> NoError]
       ELSE [src |-> prepare_image(toc_size) \o <<Struct(0, toc_size, "toc", pv.toc_entries)>>,
             size |-> toc_size, err |-> NoError]

\* The file _write_partition_data copies for a partition:
\* [path, src, size, err]; path = "" when the partition is skipped.
KdChildImage(part, parts, pv) ==
    IF part.image = ""
    THEN IF part.name = "partition_table_mbr"
         THEN LET g == _generate_mbr(parts, pv)
              IN [path |-> "tmp/partition_table_mbr", src |-> g.src, size |-> g.size, err |-> g.err]
         ELSE IF part.name = "partition_toc" /\ pv.toc_enable
         THEN LET g == _generate_toc_partition(pv)
              IN [path |-> "tmp/partition_toc", src |-> g.src, size |-> g.size, err |-> g.err]
         ELSE [path |-> "", src |-> <<>>, size |-> 0, err |-> NoError]
    ELSE IF ~ChildExists(part.image)
    THEN [path |-> part.image, src |-> <<>>, size |-> 0, err |-> Raise("ImageError", "Subimage not found")]
    ELSE [path |-> part.image, src |-> <<Fill(0, ChildSize(part.image), ChildFill(part.image))>>,
          size |-> ChildSize(part.image), err |-> NoError]

\* KdImgPart
KdImgPart(part_offset, part_size, part_erase_size, part_max_size, part_flag, part_name, part_content_offset, part_content_size, part_content_sha256) ==
    [part_offset |-> part_offset, part_size |-> part_size, part_erase_size |-> part_erase_size,
     part_max_size |-> part_max_size, part_flag |-> part_flag, part_name |-> part_name,
     part_content_offset |-> part_content_offset, part_content_size |-> part_content_size,
     part_content_sha256 |-> part_content_sha256]

\* fault: the duplicate's descriptor points past the first one's content
KdDuplicateRecord_own_region(part, record, image_path, aligned_child_size) ==
    [image_file |-> image_path,
     part |-> KdImgPart(part.offset, aligned_child_size, part.erase_size, part.size, part.flag,
                        part.name, record.part.part_content_offset + 4096,
                        record.part.part_content_size, record.part.part_content_sha256)]

\* the record appended for a partition whose image_path a record already has
KdDuplicateRecord(part, record, image_path, aligned_child_size) ==
    [image_file |-> image_path,
     part |-> KdImgPart(part.offset, aligned_child_size, part.erase_size, part.size, part.flag,
                        part.name, record.part.part_content_offset,
                        record.part.part_content_size, record.part.part_content_sha256)]

\* the record appended after the content of a partition was written
KdWrittenRecord(part, image_path, aligned_child_size, image_write_offset, sha) ==
    [image_file |-> image_path,
     part |-> KdImgPart(part.offset, aligned_child_size, part.erase_size, part.size, part.flag,
                        part.name, image_write_offset, aligned_child_size, sha)]

\* index of the first record with this image_file, 0 if there is none
KdFindRecord(records, image_path) ==
    LET hits == {k \in 1..Len(records) : records[k].image_file = image_path}
    IN IF hits = {} THEN 0 ELSE CHOOSE k \in hits : \A j \in hits : k <= j

KBURN_FLAG_SPI_NAND_WRITE_WITH_OOB == 1024

_kburn_flag_flag(flag) == flag.flag_flag
_kburn_flag_val1(flag) == flag.val1
_kburn_flag_val2(flag) == flag.val2

\* the test _write_partition_data makes on a child larger than its
\* partition: the exception raised, or NoError
KdSizeOverflow(part, child_size) ==
    LET flag_val1 == _kburn_flag_val1(part.flag)
        flag_val2 == _kburn_flag_val2(part.flag)
        page_oob_size == flag_val1 + flag_val2
        child_size_only_page == (child_size \div page_oob_size) * flag_val1
    IN IF child_size <= part.size THEN NoError
       ELSE IF _kburn_flag_flag(part.flag) # KBURN_FLAG_SPI_NAND_WRITE_WITH_OOB
       THEN Raise("ImageError", "partition size overflow")
       ELSE IF page_oob_size = 0
       THEN Raise("ZeroDivisionError", "integer modulo by zero")
       ELSE IF child_size % page_oob_size # 0
       THEN Raise("ImageError", "image size not aligned to page + OOB")
       ELSE IF child_size_only_page > part.size
       THEN Raise("ImageError", "partition too small for the pages")
       ELSE NoError

\* the content cursor after a region of aligned_child_size bytes, advanced
\* without the rounding to 4096
KdNextWriteOffset_unrounded(image_write_offset, aligned_child_size) ==
    image_write_offset + aligned_child_size

\* the content cursor after a region of aligned_child_size bytes was written
\* at image_write_offset
KdNextWriteOffset(image_write_offset, aligned_child_size) ==
    image_write_offset + _roundup(aligned_child_size, 4096)

\* one pass of the loop of _write_partition_data, for image.partitions[i];
\* st = [log, pv, err], the content cursor being pv.image_write_offset
KdWriteStep(st, parts, i, padding_byte) ==
    LET part == parts[i]
        pv == st.pv
        child == KdChildImage(part, parts, pv)
        child_size == child.size
        aligned_child_size == IF 4096 < child_size THEN _roundup(child_size, 4096) ELSE child_size
        dup == KdFindRecord(pv.part_records, child.path)
        log1 == insert_file(st.log, child.src, child_size, aligned_child_size,
                            pv.image_write_offset, padding_byte)
        sha == _calculate_sha256(log1, pv.image_write_offset, aligned_child_size)
    IN IF child.err # NoError THEN [st EXCEPT !.err = child.err]
       ELSE IF child.path = "" THEN st
       ELSE IF KdSizeOverflow(part, child_size) # NoError
       THEN [st EXCEPT !.err = KdSizeOverflow(part, child_size)]
       ELSE IF dup # 0
       THEN [st EXCEPT !.pv.part_records =
                 Append(@, KdDuplicateRecord(part, pv.part_records[dup], child.path, aligned_child_size))]
       ELSE [log |-> log1,
             pv |-> [pv EXCEPT !.part_records =
                                  Append(@, KdWrittenRecord(part, child.path, aligned_child_size,
                                                            pv.image_write_offset, sha)),
                               !.image_write_offset = KdNextWriteOffset(@, aligned_child_size),
                               !.header.part_tbl_num = Len(parts)],
             err |-> NoError]

\* the passes lo..hi of that loop, in order, stopping at the first exception
RECURSIVE KdWriteLoop(_, _, _, _, _)
KdWriteLoop(st, parts, lo, hi, padding_byte) ==
    IF st.err # NoError \/ lo > hi THEN st
    ELSE IF lo = hi THEN KdWriteStep(st, parts, lo, padding_byte)
    ELSE LET mid == (lo + hi) \div 2
         IN KdWriteLoop(KdWriteLoop(st, parts, lo, mid, padding_byte), parts, mid + 1, hi, padding_byte)

\* _write_partition_data up to the end of its loop: [log, pv, err]
KdWriteContents(log, parts, pv) ==
    LET padding_byte == IF pv.medium_type \in {MEDIUM_TYPE_SPI_NAND, MEDIUM_TYPE_SPI_NOR}
                        THEN <<255>> ELSE <<0>>
    IN KdWriteLoop([log |-> log,
                    pv |-> [pv EXCEPT !.image_write_offset = KDIMG_CONTENT_START_OFFSET],
                    err |-> NoError],
                   parts, 1, Len(parts), padding_byte)

\* the descriptors of the partition table, as written at offset 512
KdPartTable(records) == [k \in 1..Len(records) |-> records[k].part]

\* the header _write_partition_data builds once the loop has ended
KdFinalHeader(pv) ==
    LET h == [pv.header EXCEPT !.img_hdr_flag = 0, !.img_hdr_version = 2,
                               !.part_tbl_crc32 = zlib_crc32(KdPartTable(pv.part_records)),
                               !.img_hdr_crc32 = CrcZero]
    IN [h EXCEPT !.img_hdr_crc32 = zlib_crc32(h)]

\* the final stage of _write_partition_data: header at 0, descriptors at
\* 512, truncation at the content cursor, _validate_file_size; [log, pv, err]
KdWriteHeader(log, pv) ==
    LET header == KdFinalHeader(pv)
        table == KdPartTable(pv.part_records)
        log1 == Append(log, Struct(0, KD_HEADER_ALIGN, "kd_header", header))
        log2 == IF table = <<>> THEN log1
                ELSE Append(log1, Struct(512, KD_PART_ENTRY_ALIGN * Len(table), "kd_part_table", table))
        log3 == Append(log2, Truncate(pv.image_write_offset))
    IN [log |-> log3, pv |-> [pv EXCEPT !.header = header],
        err |-> IF FileLen(log3) # pv.image_write_offset
                THEN Raise("ImageError", "File size anomaly") ELSE NoError]

-----------------------------------------------------------------------------
(* kdimage: the configurations explored *)

\* Largest number of partition blocks chosen freely in one kdimage.
KdMaxParts == 2

\* Number of partition blocks of the largest kdimage explored.
KdManyParts == 255

\* where the i-th partition block of a configuration places its partition
KdPartOffset(i) == i * 131072

\* partition blocks a kdimage configuration may declare (named and placed
\* by their position unless an offset is given):
\* KdPartition(name, in-partition-table, offset, size, image, partition-type,
\*             partition-type-uuid)
KdPartChoices(table) ==
    CASE table = "none" ->
        { KdPartition("", TRUE, 0, 0, "a", PtNone, ""),
          KdPartition("", TRUE, 0, 0, "c", PtNone, ""),
          KdPartition("", TRUE, 0, 16384, "c", PtNone, ""),
          KdPartition("", TRUE, 0, 512, "a", PtNone, ""),
          KdPartition("", TRUE, 131072, 0, "b", PtNone, ""),
          KdPartition("", TRUE, 0, 0, "a", PtStr(131), "") }
      [] table = "mbr" ->
        { KdPartition("", TRUE, 0, 0, "a", PtNone, ""),
          KdPartition("", TRUE, 0, 8192, "c", PtStr(131), ""),
          KdPartition("", TRUE, 0, 0, "a", PtInt(131), ""),
          KdPartition("", FALSE, 0, 0, "c", PtNone, ""),
          KdPartition("", TRUE, 0, 0, "a", PtNone, "L") }
      [] table = "gpt" ->
        { KdPartition("", TRUE, 0, 0, "a", PtNone, ""),
          KdPartition("", FALSE, 0, 0, "a", PtNone, ""),
          KdPartition("", FALSE, 0, 8192, "c", PtNone, "") }
      [] OTHER ->
        { KdPartition("", TRUE, 0, 0, "a", PtNone, "") }

\* the partition lists: up to KdMaxParts blocks
KdPartLists(table) ==
    UNION { [1..n -> KdPartChoices(table)] : n \in 0..KdMaxParts }

\* name and place the partitions of a list by their position
KdNameParts(ps) ==
    [i \in 1..Len(ps) |-> [ps[i] EXCEPT !.name = "p" \o ToString(i),
                                        !.offset = IF @ = 0 THEN KdPartOffset(i) ELSE @]]

KdConfig(table, nb, toc, toc_offset, medium, chip_info) ==
    [table |-> table, gpt_location |-> 0, gpt_no_backup |-> nb, toc |-> toc,
     toc_offset |-> toc_offset, medium_type |-> medium,
     image_info |-> "image", chip_info |-> chip_info, board_info |-> "board"]

\* the values of medium-type ("" = not configured)
KdMediumTypes == {"", "mmc", "spi_nand", "spi_nor"}

KdConfigs ==
    { KdConfig(table, FALSE, FALSE, 0, m, "k230") : table \in {"none", "mbr", "gpt"}, m \in KdMediumTypes }
    \cup { KdConfig(table, FALSE, TRUE, off, m, "k230") :
             table \in {"none", "mbr", "gpt"}, off \in {0, 4096}, m \in {"", "spi_nor"} }
    \cup { KdConfig("gpt", TRUE, FALSE, 0, "mmc", "k230"),
           KdConfig("hybrid", FALSE, FALSE, 0, "mmc", "k230"),
           KdConfig("none", FALSE, FALSE, 0, "mmc", "") }

\* a kdimage of KdManyParts partitions that all name the same child image
KdManyLists ==
    { [i \in 1..KdManyParts |-> KdPartition("", TRUE, 0, 0, c, PtNone, "")] : c \in {"a", "c"} }

\* Number of partition blocks of the configurations with flagged partitions.
KdOobParts == 2

\* partitions of child image c (5000 bytes) with and without the
\* write-with-OOB marker in their flag: a page and OOB size that divide the
\* child and fit (4 + 1), that divide it and do not fit 4096 (7 + 1), that do
\* not divide it (6 + 1), and the page and OOB sizes under another marker
KdOobChoices ==
    { [KdPartition("", TRUE, 0, size, "c", PtNone, "") EXCEPT !.flag = flag] :
        size \in {4096, 8192},
        flag \in { KburnFlag(0, 0, 0), KburnFlag(KBURN_FLAG_SPI_NAND_WRITE_WITH_OOB, 4, 1),
                   KburnFlag(KBURN_FLAG_SPI_NAND_WRITE_WITH_OOB, 7, 1),
                   KburnFlag(KBURN_FLAG_SPI_NAND_WRITE_WITH_OOB, 6, 1), KburnFlag(1, 4, 1) } }

KdOobLists == UNION { [1..n -> KdOobChoices] : n \in 1..KdOobParts }

InitKd ==
    /\ handler = "kd"
    /\ \/ /\ config \in KdConfigs
          /\ \E ps \in KdPartLists(config.table) :
                image = [size |-> 0, size_str |-> 0, partitions |-> KdNameParts(ps)]
       \/ /\ config = KdConfig("none", FALSE, FALSE, 0, "mmc", "k230")
          /\ \E ps \in KdManyLists :
                image = [size |-> 0, size_str |-> 0, partitions |-> KdNameParts(ps)]
       \/ /\ config = KdConfig("none", FALSE, FALSE, 0, "spi_nand", "k230")
          /\ \E ps \in KdOobLists :
                image = [size |-> 0, size_str |-> 0, partitions |-> KdNameParts(ps)]
    /\ priv = KdPrivateData
    /\ outfile = <<>>
    /\ pc = "start"
    /\ error = NoException

\* KdImageHandler.setup
KdSetup ==
    /\ handler = "kd" /\ pc = "start"
    /\ LET r == KdSetupResult(config, image.partitions, priv) IN
         /\ image' = [image EXCEPT !.partitions = r.parts]
         /\ priv' = r.pv
         /\ error' = IF r.err = NoError THEN NoException ELSE Raised(r.err, "setup")
         /\ pc' = IF r.err = NoError THEN "setup_ok" ELSE "error"
    /\ UNCHANGED <<handler, config, outfile>>

\* generate, first part: prepare_image and the loop of _write_partition_data
KdGenerateContents ==
    /\ handler = "kd" /\ pc = "setup_ok"
    /\ LET r == KdWriteContents(prepare_image(priv.file_size), image.partitions, priv) IN
         /\ outfile' = r.log
         /\ priv' = r.pv
         /\ error' = GenerateError(r.err, "contents")
         /\ pc' = IF r.err = NoError THEN "contents_ok" ELSE "error"
    /\ UNCHANGED <<handler, config, image>>

\* generate, second part: the header, the partition table and the truncation
KdGenerateHeader ==
    /\ handler = "kd" /\ pc = "contents_ok"
    /\ LET r == KdWriteHeader(outfile, priv) IN
         /\ outfile' = r.log
         /\ priv' = r.pv
         /\ error' = GenerateError(r.err, "header")
         /\ pc' = IF r.err = NoError THEN "done" ELSE "error"
    /\ UNCHANGED <<handler, config, image>>

NextKd == KdSetup \/ KdGenerateContents \/ KdGenerateHeader

SpecKd == InitKd /\ [][NextKd]_vars

-----------------------------------------------------------------------------
(* kdimage: properties *)

KdParts == image.partitions

\* generate() has returned normally: the file is finished
KdFinished == handler = "kd" /\ pc = "done"

\* the loop of _write_partition_data has ended normally
KdContentsWritten == handler = "kd" /\ pc \in {"contents_ok", "done"}

\* the header stored at offset 0 of the file
KdHeaderInFile == StructAt(outfile, 0)

\* the partition descriptors stored at offset 512 of the file
KdTableInFile ==
    IF HoldsStruct(outfile, 512, "kd_part_table") THEN StructAt(outfile, 512) ELSE <<>>

\* the stored SHA-256 of a descriptor is that of the bytes the file holds
\* in the descriptor's content region
KdHashMatchesFile(log, d) ==
    d.part_content_sha256 = hashlib_sha256(FileContent(log, d.part_content_offset, d.part_content_size))

\* C7: in a kdimage every descriptor's SHA-256 is the SHA-256 of the file
\* bytes [content_offset, content_offset + content_size): this is so once
\* the contents are written, and the header, the descriptor table and the
\* truncation that follow leave it so in the finished file.
C7_ContentHashes ==
    /\ KdContentsWritten =>
         \A k \in 1..Len(priv.part_records) : KdHashMatchesFile(outfile, priv.part_records[k].part)
    /\ KdFinished =>
         /\ Len(KdTableInFile) = Len(priv.part_records)
         /\ \A k \in 1..Len(KdTableInFile) : KdHashMatchesFile(outfile, KdTableInFile[k])

\* C8: in a finished kdimage the partition count of the header
\* (part_tbl_num) is the number of 256-byte descriptors written at offset
\* 512, whatever the table type, gpt backup, TOC or deduplication.
C8_CountMatchesDescriptors ==
    KdFinished =>
        /\ HoldsStruct(outfile, 0, "kd_header")
        /\ KdHeaderInFile.part_tbl_num = Len(KdTableInFile)

\* the file a partition's content comes from ("" if it has none)
KdContentPath(part) ==
    IF part.image # "" THEN part.image
    ELSE IF part.name = "partition_table_mbr" THEN "tmp/partition_table_mbr"
    ELSE IF part.name = "partition_toc" /\ config.toc THEN "tmp/partition_toc"
    ELSE ""

\* the partitions that have content, in list order
KdContentParts == SelectSeq(KdParts, LAMBDA q : KdContentPath(q) # "")

\* position, among the partitions with content, of the first one with the
\* same content file as the k-th
KdFirstWithSameFile(k) ==
    CHOOSE j \in 1..k :
        /\ KdContentPath(KdContentParts[j]) = KdContentPath(KdContentParts[k])
        /\ \A i \in 1..(j - 1) : KdContentPath(KdContentParts[i]) # KdContentPath(KdContentParts[k])

\* the space the content regions of the records lo..hi take in the file,
\* a region being counted once, for the first record that refers to it
RECURSIVE KdRegionSpace(_, _, _)
KdRegionSpace(recs, lo, hi) ==
    IF lo > hi THEN 0
    ELSE IF lo = hi
    THEN (IF KdFirstWithSameFile(lo) = lo THEN _roundup(recs[lo].part.part_content_size, 4096) ELSE 0)
    ELSE LET mid == (lo + hi) \div 2
         IN KdRegionSpace(recs, lo, mid) + KdRegionSpace(recs, mid + 1, hi)

\* C9: when a later kdimage partition names the child file of an earlier
\* one, no second content region is written and the content cursor does not
\* advance; the later descriptor has the earlier one's content_offset,
\* content_size and SHA-256 and its own name, placement offset and maximum
\* size; every partition with content still gets one descriptor.
C9_Deduplication ==
    KdContentsWritten =>
        LET recs == priv.part_records IN
        /\ Len(recs) = Len(KdContentParts)
        /\ \A k \in 1..Len(recs) :
             LET part == KdContentParts[k]
                 d == recs[k].part
                 first == KdFirstWithSameFile(k)
             IN /\ d.part_name = part.name
                /\ d.part_offset = part.offset
                /\ d.part_max_size = part.size
                /\ first < k =>
                     /\ d.part_content_offset = recs[first].part.part_content_offset
                     /\ d.part_content_size = recs[first].part.part_content_size
                     /\ d.part_content_sha256 = recs[first].part.part_content_sha256
                /\ first = k =>
                     d.part_content_offset = KDIMG_CONTENT_START_OFFSET + KdRegionSpace(recs, 1, k - 1)
        /\ priv.image_write_offset = KDIMG_CONTENT_START_OFFSET + KdRegionSpace(recs, 1, Len(recs))
        /\ KdFinished => FileLen(outfile) = priv.image_write_offset

\* C9 witness: a finished kdimage whose second partition names the child
\* file of the first and has another placement and maximum size.
C9_Witness ==
    /\ KdFinished /\ Len(priv.part_records) = 2
    /\ KdParts[1].image # "" /\ KdParts[1].image = KdParts[2].image
    /\ priv.part_records[1].part.part_max_size # priv.part_records[2].part.part_max_size
    /\ priv.part_records[1].part.part_offset # priv.part_records[2].part.part_offset

\* C10: in a finished kdimage, the rest of a content region whose child
\* file is shorter than the region reads 0x00 when the configured
\* medium-type is mmc and 0xFF when it is spi_nand or spi_nor.
C10_PadByteFollowsMedium ==
    (KdFinished /\ config.medium_type \in {"mmc", "spi_nand", "spi_nor"}) =>
        \A k \in 1..Len(KdTableInFile) :
            LET d == KdTableInFile[k]
                child == priv.part_records[k].image_file
            IN (child \in ChildNames /\ ChildSize(child) < d.part_content_size) =>
                   AllBytes(outfile, d.part_content_offset + ChildSize(child),
                            d.part_content_offset + d.part_content_size,
                            IF config.medium_type = "mmc" THEN 0 ELSE 255)

\* the content regions the descriptors of a table refer to, each once
KdRegions(table) ==
    {<<table[k].part_content_offset, table[k].part_content_size>> : k \in 1..Len(table)}

\* the file space of a set of content regions, each taking its size rounded
\* up to a multiple of 4096
RECURSIVE KdSpaceOf(_)
KdSpaceOf(regions) ==
    IF regions = {} THEN 0
    ELSE LET r == CHOOSE r \in regions : TRUE
         IN ((r[2] + 4095) \div 4096) * 4096 + KdSpaceOf(regions \ {r})

\* C11: whenever kdimage generate returns normally, the length of the file
\* is the content cursor, and the cursor is 64 KiB plus the sum, over the
\* content regions written (a deduplicated child once, the generated MBR and
\* TOC bodies included), of the content size rounded up to 4096.
C11_LengthIsCursor ==
    KdFinished =>
        /\ FileLen(outfile) = priv.image_write_offset
        /\ priv.image_write_offset =
               KDIMG_CONTENT_START_OFFSET + KdSpaceOf(KdRegions(KdTableInFile))

\* C11 witness: a finished kdimage with a generated MBR body, a child
\* written once for two partitions and a content size that is no multiple
\* of 4096.
C11_Witness ==
    /\ KdFinished
    /\ \E k \in 1..Len(KdParts) : KdParts[k].name = "partition_table_mbr"
    /\ Cardinality(KdRegions(KdTableInFile)) < Len(KdTableInFile)
    /\ \E r \in KdRegions(KdTableInFile) : r[2] % 4096 # 0
    /\ FileLen(outfile) > KDIMG_CONTENT_START_OFFSET + 4096

-----------------------------------------------------------------------------
(* TOC: properties *)

\* the partitions declared by the user, as they are after setup; setup adds
\* only partitions whose name starts with '['
HdUserParts == SelectSeq(HdParts, LAMBDA q : ~IsBracketed(q.name))

\* the TOC records stored in the file at the configured TOC offset
HdTocInFile ==
    IF HoldsStruct(outfile, priv.toc_offset, "toc") THEN StructAt(outfile, priv.toc_offset) ELSE <<>>

\* C12: in a finished hdimage with toc enabled, the TOC in the file has
\* one 64-byte entry per user-declared partition, in declared order, none
\* for a bracketed partition, and the offset and size of each entry are the
\* offset and size the partition has once setup has solved the layout.
C12_TocMatchesLayout ==
    (HdFinished /\ config.toc) =>
        /\ Len(HdTocInFile) = Len(HdUserParts)
        /\ \A k \in 1..Len(HdTocInFile) :
             /\ HdTocInFile[k].partition_name = HdUserParts[k].name
             /\ HdTocInFile[k].partition_offset = HdUserParts[k].offset
             /\ HdTocInFile[k].partition_size = HdUserParts[k].size

-----------------------------------------------------------------------------
(* vfat: the minimization step of VFatHandler.generate *)

(* The output file of a vfat image is written by mkdosfs and mcopy. It is
   kept as [bpb, words, size]: bpb holds the boot sector fields that
   _find_last_valid_pos reads, words maps the index of a 16-bit little-endian
   word of the file (byte offset / 2) to its value where that is not 0, and
   size is the file length. The fields at offsets 36..39 are the FAT32
   sectors-per-FAT of a FAT32 volume and the drive number, boot signature and
   volume id byte of a FAT16 volume. *)

\* the 16-bit word at an even byte offset of the file
VfatWord(file, offset) ==
    IF (offset \div 2) \in DOMAIN file.words THEN file.words[offset \div 2] ELSE 0

\* a volume as mkdosfs and mcopy leave it: v gives the geometry, raw36 the
\* 32-bit value at offset 36, fat the FAT entries that are not 0 (cluster ->
\* value); every FAT copy holds them, and an allocated cluster holds data
mkdosfs(v, raw36, fat) ==
    LET entry_words == IF v.fat32 THEN 2 ELSE 1
        spf == IF v.fat32 THEN raw36 ELSE v.sectors_per_fat_16
        root_dir_sectors == (v.root_entry_count * 32 + 511) \div 512
        fat_word(k, c) == (v.reserved_sectors + k * spf) * 256 + c * entry_words
        data_word(c) == (v.reserved_sectors + v.num_fats * spf + root_dir_sectors
                         + (c - 2) * v.sectors_per_cluster) * 256
        lows == {<<fat_word(k, c), fat[c] % 65536>> : k \in 0..(v.num_fats - 1), c \in DOMAIN fat}
        highs == IF v.fat32
                 THEN {<<fat_word(k, c) + 1, fat[c] \div 65536>> : k \in 0..(v.num_fats - 1), c \in DOMAIN fat}
                 ELSE {}
        data == {<<data_word(c), 16705>> : c \in DOMAIN fat \ {0, 1}}
        cells == {x \in lows \cup highs \cup data : x[2] # 0}
    IN [bpb |-> [bytes_per_sector |-> 512,
                 sectors_per_cluster |-> v.sectors_per_cluster,
                 reserved_sectors |-> v.reserved_sectors,
                 num_fats |-> v.num_fats,
                 root_entry_count |-> v.root_entry_count,
                 total_sectors_16 |-> IF v.total_sectors < 65536 THEN v.total_sectors ELSE 0,
                 sectors_per_fat_16 |-> v.sectors_per_fat_16,
                 total_sectors_32 |-> IF v.total_sectors < 65536 THEN 0 ELSE v.total_sectors,
                 sectors_per_fat_32 |-> raw36],
        words |-> [w \in {x[1] : x \in cells} |-> (CHOOSE x \in cells : x[1] = w)[2]],
        size |-> v.total_sectors * 512]

\* the end of the last used cluster, without the offset of the data region
VfatFinalOffset_without_fats(data_region_offset, last_used_cluster, cluster_size_bytes) ==
    (last_used_cluster + 1) * cluster_size_bytes

\* the end of the last used cluster as _find_last_valid_pos computes it
VfatFinalOffset(data_region_offset, last_used_cluster, cluster_size_bytes) ==
    data_region_offset + (last_used_cluster + 1) * cluster_size_bytes

\* _find_last_valid_pos: [pos, fat_type, sectors_per_fat, err]; every
\* exception inside it leaves as an ImageError
_find_last_valid_pos(file) ==
    LET b == file.bpb
        current_file_size == file.size
        bytes_per_sector == b.bytes_per_sector
        total_fat_region_size_32 == b.reserved_sectors * bytes_per_sector
                                    + b.num_fats * (b.sectors_per_fat_32 * bytes_per_sector)
        sectors_per_fat ==
            IF b.sectors_per_fat_32 # 0 /\ ~(total_fat_region_size_32 > current_file_size)
            THEN b.sectors_per_fat_32
            ELSE IF b.sectors_per_fat_16 # 0 THEN b.sectors_per_fat_16
            ELSE 0
        fat_size_bytes == sectors_per_fat * bytes_per_sector
        total_fat_region_size == b.reserved_sectors * bytes_per_sector
                                 + b.num_fats * sectors_per_fat * bytes_per_sector
        total_sectors == IF b.total_sectors_32 # 0 THEN b.total_sectors_32 ELSE b.total_sectors_16
        root_dir_sectors == (b.root_entry_count * 32 + bytes_per_sector - 1) \div bytes_per_sector
        data_sectors == total_sectors - (b.reserved_sectors + b.num_fats * sectors_per_fat + root_dir_sectors)
        total_clusters == IF b.sectors_per_cluster # 0 THEN data_sectors \div b.sectors_per_cluster ELSE 0
        fat_type == IF total_clusters < 65525 THEN "FAT16" ELSE "FAT32"
        entry_bytes == IF fat_type = "FAT16" THEN 2 ELSE 4
        fat_offset == b.reserved_sectors * bytes_per_sector
        num_entries == fat_size_bytes \div entry_bytes
        fat_entry(cluster) ==
            LET read_offset == fat_offset + cluster * entry_bytes
            IN IF fat_type = "FAT16" THEN VfatWord(file, read_offset)
               ELSE (VfatWord(file, read_offset + 2) % 4096) * 65536 + VfatWord(file, read_offset)
        is_used(entry) ==
            IF fat_type = "FAT16" THEN entry >= 2
            ELSE entry # 0 /\ entry < 268435448
        used == {cluster \in 2..(num_entries - 1) :
                    /\ fat_offset + cluster * entry_bytes + entry_bytes <= current_file_size
                    /\ is_used(fat_entry(cluster))}
        last_used_cluster == IF used = {} THEN 0 ELSE CHOOSE c \in used : \A d \in used : d <= c
        fail(msg) == [pos |-> 0, fat_type |-> "", sectors_per_fat |-> sectors_per_fat,
                      err |-> Raise("ImageError", msg)]
    IN IF current_file_size < 40 THEN fail("Failed to find last valid position: error")
       ELSE IF sectors_per_fat = 0 THEN fail("FAT sector count is zero or invalid")
       ELSE IF total_fat_region_size > current_file_size THEN fail("total FAT region size exceeds image size")
       ELSE IF total_sectors = 0 THEN fail("Total sectors count is zero or invalid")
       ELSE IF bytes_per_sector = 0 THEN fail("Failed to find last valid position: ZeroDivisionError")
       ELSE IF total_clusters < 4085 THEN fail("FAT12 not supported for minimization")
       ELSE [pos |-> IF last_used_cluster = 0 THEN -1
                     ELSE VfatFinalOffset(total_fat_region_size, last_used_cluster,
                                          b.sectors_per_cluster * bytes_per_sector),
             fat_type |-> fat_type, sectors_per_fat |-> sectors_per_fat, err |-> NoError]

\* f.truncate(last_pos) on a file longer than last_pos
VfatTruncate(file, last_pos) ==
    [file EXCEPT !.size = last_pos,
                 !.words = [w \in {x \in DOMAIN file.words : 2 * x + 2 <= last_pos} |-> file.words[w]]]

\* the minimization step of generate: [file, size, found, err]
VfatMinimizeStep(file, image_size) ==
    LET found == _find_last_valid_pos(file)
        last_pos == found.pos
        current_size == file.size
    IN IF found.err # NoError
       THEN [file |-> file, size |-> image_size, found |-> found, err |-> found.err]
       ELSE IF last_pos <= 0
       THEN [file |-> file, size |-> image_size, found |-> found,
             err |-> Raise("ImageError", "Unable to find valid filesystem position")]
       ELSE IF last_pos < current_size
       THEN [file |-> VfatTruncate(file, last_pos), size |-> last_pos, found |-> found, err |-> NoError]
       ELSE [file |-> file, size |-> image_size, found |-> found, err |-> NoError]

-----------------------------------------------------------------------------
(* vfat: the volumes explored *)

\* FAT16 volumes of 40000 sectors with one or two FAT copies and 4 or 8
\* sectors per cluster, and a FAT32 volume of 66600 one-sector clusters
VfatVolumes ==
    { [fat32 |-> FALSE, sectors_per_cluster |-> spc, reserved_sectors |-> 1, num_fats |-> nf,
       root_entry_count |-> 512, total_sectors |-> 40000,
       sectors_per_fat_16 |-> IF spc = 4 THEN 40 ELSE 20] : spc \in {4, 8}, nf \in {1, 2} }
    \cup { [fat32 |-> TRUE, sectors_per_cluster |-> 1, reserved_sectors |-> 32, num_fats |-> 2,
            root_entry_count |-> 0, total_sectors |-> 66600, sectors_per_fat_16 |-> 0] }

\* the 32-bit value at offset 36: the sectors per FAT of a FAT32 volume; in
\* a FAT16 volume 0, the drive number 0x80 alone, or the drive number with
\* the boot signature 0x29 at offset 38
VfatRaw36(v) ==
    IF v.fat32 THEN {513}
    ELSE {0, 128} \cup (IF v.num_fats = 1 THEN {128 + 41 * 65536} ELSE {})

\* FAT contents: the media entries 0 and 1, then no file, a file of one
\* cluster, chains of several clusters, a chain far into the FAT, and a bad
\* cluster mark; eoc is the end-of-chain value of the FAT type
VfatAllocations(eoc) ==
    LET media == (0 :> (eoc - 7)) @@ (1 :> eoc)
    IN { media,
         media @@ (2 :> eoc),
         media @@ (2 :> 3) @@ (3 :> eoc),
         media @@ (2 :> eoc) @@ (3 :> 4) @@ (4 :> 5) @@ (5 :> eoc),
         media @@ (2 :> 3) @@ (3 :> eoc) @@ (900 :> 901) @@ (901 :> eoc),
         media @@ (7 :> (eoc - 8)) }

InitVfat ==
    /\ handler = "vfat"
    /\ \E v \in VfatVolumes :
         \E raw36 \in VfatRaw36(v), fat \in VfatAllocations(IF v.fat32 THEN 268435455 ELSE 65535) :
            /\ outfile = mkdosfs(v, raw36, fat)
            /\ config = [minimize |-> TRUE, size |-> v.total_sectors * 512]
            /\ image = [size |-> v.total_sectors * 512, size_str |-> v.total_sectors * 512,
                        partitions |-> <<>>]
    /\ priv = [fat_type |-> "", sectors_per_fat |-> 0, last_pos |-> 0]
    /\ pc = "generated"
    /\ error = NoException

\* the minimization step of VFatHandler.generate, on the file mkdosfs and
\* mcopy have written (pc = "generated") and once more on its own result
VfatMinimize ==
    /\ handler = "vfat" /\ pc \in {"generated", "minimized"} /\ config.minimize
    /\ LET r == VfatMinimizeStep(outfile, image.size) IN
         /\ outfile' = r.file
         /\ image' = [image EXCEPT !.size = r.size]
         /\ priv' = [fat_type |-> r.found.fat_type, sectors_per_fat |-> r.found.sectors_per_fat,
                     last_pos |-> r.found.pos]
         /\ error' = GenerateError(r.err, IF pc = "generated" THEN "minimize" ELSE "minimize_again")
         /\ pc' = IF r.err # NoError THEN "error"
                  ELSE IF pc = "generated" THEN "minimized" ELSE "minimized_again"
    /\ UNCHANGED <<handler, config>>

NextVfat == VfatMinimize

SpecVfat == InitVfat /\ [][NextVfat]_vars

\* C13: the minimization step, run on a file the same step has already
\* minimized, succeeds again and leaves the file length unchanged, for
\* FAT16 and FAT32 volumes and whichever sectors-per-FAT field was used.
C13_MinimizeIdempotent ==
    [][(handler = "vfat" /\ pc = "minimized") =>
          (pc' = "minimized_again" /\ outfile'.size = outfile.size /\ outfile' = outfile)]_vars

\* C13 witness: a FAT16 volume whose field at offset 36 is not 0 and was
\* passed over for the FAT16 field, truncated by the first run and run
\* through the step a second time.
C13_Witness ==
    /\ handler = "vfat" /\ pc = "minimized_again"
    /\ outfile.size < config.size
    /\ priv.fat_type = "FAT16"
    /\ outfile.bpb.sectors_per_fat_32 # 0
    /\ priv.sectors_per_fat = outfile.bpb.sectors_per_fat_16

-----------------------------------------------------------------------------
(* GenImageTool: parse_config, run and main of genimage.py *)

(* handler = "tool". config is the configuration file and the root
   directory: [images, rootfiles], images being the image blocks in the
   order they are declared, each [name, type, refs, fails] with refs the
   image names its partitions give as body and fails what its handler does
   for reasons of its own ("none", an ImageError in "setup" or in "generate",
   or "crash": an exception that is no ImageError). image is self.images,
   outfile the set of files that exist, priv = [i, calls, exit_status] the
   loop position of run, the handler calls made so far and the exit status
   of the process (-1 while it runs). *)

\* Largest number of image blocks in a configuration file.
RunMaxImages == 2

\* a file path: the directory ("root" = rootpath, "out" = outputpath) and
\* the file name
Path(dir, name) == [dir |-> dir, name |-> name]

\* get_image_by_name over the images appended so far: 0 if there is none
get_image_by_name(images, name) ==
    LET hits == {k \in 1..Len(images) : images[k].name = name}
    IN IF hits = {} THEN 0 ELSE CHOOSE k \in hits : \A j \in hits : k <= j

\* _process_image_block: the Image of a block, its dependencies resolved
\* against the images appended before it
_process_image_block(images, block) ==
    [name |-> block.name, type |-> block.type, fails |-> block.fails,
     outfile |-> Path("out", block.name),
     dependencies |->
        [k \in 1..Len(block.refs) |->
            [image |-> block.refs[k],
             image_path |-> IF get_image_by_name(images, block.refs[k]) # 0
                            THEN images[get_image_by_name(images, block.refs[k])].outfile
                            ELSE Path("root", block.refs[k])]]]

\* parse_config: self.images after the blocks 1..n, in declared order
RECURSIVE parse_config(_, _)
parse_config(blocks, n) ==
    IF n = 0 THEN <<>>
    ELSE LET before == parse_config(blocks, n - 1)
         IN Append(before, _process_image_block(before, blocks[n]))

\* image.handler.run(image, config): setup, then generate; [calls, files,
\* err]. A kdimage looks its child files up in setup, an hdimage whose
\* partitions have sizes opens them in generate (insert_data).
HandlerRun(img, files, calls) ==
    LET missing == \E k \in 1..Len(img.dependencies) : img.dependencies[k].image_path \notin files
        calls1 == Append(calls, [op |-> "setup", name |-> img.name])
        calls2 == Append(calls1, [op |-> "generate", name |-> img.name])
        out(c, e) == [calls |-> c, files |-> files, err |-> e]
    IN IF img.fails = "crash" THEN out(calls1, Raise("AttributeError", "setup"))
       ELSE IF img.fails = "setup" THEN out(calls1, Raise("ImageError", "setup"))
       ELSE IF img.type = "kdimage" /\ missing THEN out(calls1, Raise("ImageError", "Subimage not found"))
       ELSE IF img.fails = "generate" THEN out(calls2, Raise("ImageError", "generate"))
       ELSE IF missing THEN out(calls2, Raise("ImageError", "not exist"))
       ELSE [calls |-> Append(calls2, [op |-> "done", name |-> img.name]),
             files |-> files \cup {img.outfile}, err |-> NoError]

\* the name of the i-th image block
ImageName(i) == "img" \o ToString(i)

\* the image blocks a configuration may hold at position i of n: either
\* handler type, every behaviour of the handler, and as partition body the
\* file "a" of the root directory or another image of the configuration
RunBlockChoices(i, n) ==
    { [name |-> ImageName(i), type |-> t, refs |-> <<r>>, fails |-> f] :
        t \in {"hdimage", "kdimage"},
        r \in {"a"} \cup {ImageName(j) : j \in (1..n) \ {i}},
        f \in {"none", "setup", "generate", "crash"} }

\* the configurations: up to RunMaxImages blocks; the root directory holds
\* the file "a" and, possibly, files named like the images
RunConfigs ==
    UNION { { [images |-> blocks, rootfiles |-> {"a"} \cup stale] :
                blocks \in { bs \in [1..n -> UNION {RunBlockChoices(i, n) : i \in 1..n}] :
                                \A i \in 1..n : bs[i] \in RunBlockChoices(i, n) },
                stale \in { {}, {ImageName(j) : j \in 1..n} } } : n \in 1..RunMaxImages }

InitTool ==
    /\ handler = "tool"
    /\ config \in RunConfigs
    /\ image = <<>>
    /\ priv = [i |-> 0, calls |-> <<>>, exit_status |-> -1]
    /\ outfile = {Path("root", f) : f \in config.rootfiles}
    /\ pc = "start"
    /\ error = NoException

\* run, first part: parse_config
ToolParseConfig ==
    /\ handler = "tool" /\ pc = "start"
    /\ image' = parse_config(config.images, Len(config.images))
    /\ priv' = [priv EXCEPT !.i = 1]
    /\ pc' = "running"
    /\ UNCHANGED <<handler, config, outfile, error>>

\* run, one pass of its loop over self.images: an ImageError ends the loop
\* in the except clause of run, any other exception leaves run
ToolRunImage ==
    /\ handler = "tool" /\ pc = "running" /\ priv.i <= Len(image)
    /\ LET r == HandlerRun(image[priv.i], outfile, priv.calls) IN
         /\ outfile' = r.files
         /\ priv' = [priv EXCEPT !.calls = r.calls, !.i = IF r.err = NoError THEN @ + 1 ELSE @]
         /\ error' = IF r.err = NoError THEN NoException ELSE Raised(r.err, image[priv.i].name)
         /\ pc' = IF r.err = NoError THEN "running"
                  ELSE IF r.err.type = "ImageError" THEN "returned" ELSE "crashed"
    /\ UNCHANGED <<handler, config, image>>

\* run, the end of its loop: every image was generated
ToolRunEnd ==
    /\ handler = "tool" /\ pc = "running" /\ priv.i > Len(image)
    /\ pc' = "returned"
    /\ UNCHANGED <<handler, config, image, priv, outfile, error>>

\* main after tool.run(): the process ends, with status 0 when run
\* returned and status 1 when an exception left it
ToolMain ==
    /\ handler = "tool" /\ pc \in {"returned", "crashed"}
    /\ priv' = [priv EXCEPT !.exit_status = IF pc = "returned" THEN 0 ELSE 1]
    /\ pc' = "exited"
    /\ UNCHANGED <<handler, config, image, outfile, error>>

NextTool == ToolParseConfig \/ ToolRunImage \/ ToolRunEnd \/ ToolMain

SpecTool == InitTool /\ [][NextTool]_vars

-----------------------------------------------------------------------------
(* GenImageTool: properties *)

\* the handler calls made so far
ToolCalls == priv.calls

\* position of a call in ToolCalls, 0 if it was not made
ToolCallAt(op, name) ==
    LET hits == {k \in 1..Len(ToolCalls) : ToolCalls[k] = [op |-> op, name |-> name]}
    IN IF hits = {} THEN 0 ELSE CHOOSE k \in hits : \A j \in hits : k <= j

\* the names of the declared images
ToolDeclared == {config.images[k].name : k \in 1..Len(config.images)}

\* image block k names image block j as a partition body
ToolRefers(k, j) == \E r \in 1..Len(config.images[k].refs) : config.images[k].refs[r] = config.images[j].name

\* C14: run calls generate for an image only after every declared image
\* its partitions refer to has been generated, whatever the order of the
\* blocks; each image's setup is called once, before its generate.
C14_DependenciesFirst ==
    handler = "tool" =>
        \A k \in 1..Len(config.images) :
            LET name == config.images[k].name IN
            /\ ToolCallAt("generate", name) # 0 =>
                 /\ ToolCallAt("setup", name) # 0
                 /\ ToolCallAt("setup", name) < ToolCallAt("generate", name)
                 /\ \A j \in 1..Len(config.images) :
                      ToolRefers(k, j) =>
                         /\ ToolCallAt("done", config.images[j].name) # 0
                         /\ ToolCallAt("done", config.images[j].name) < ToolCallAt("generate", name)
            /\ Cardinality({c \in 1..Len(ToolCalls) : ToolCalls[c] = [op |-> "setup", name |-> name]}) <= 1

\* C15: when a handler raised ImageError for an image no other image
\* refers to, run has gone on to the images declared after it by the time it
\* returns; it stops early only for an image another image refers to.
C15_ContinuesPastIndependentFailure ==
    (handler = "tool" /\ pc \in {"returned", "exited"} /\ error.type = "ImageError") =>
        \A k \in 1..Len(config.images) :
            (config.images[k].name = error.during /\ ~\E j \in 1..Len(config.images) : ToolRefers(j, k)) =>
                \A j \in (k + 1)..Len(config.images) : ToolCallAt("setup", config.images[j].name) # 0

\* C16: the exit status is 0 only when every declared image was generated,
\* and it is not 0 when a handler raised ImageError during the run.
C16_ExitStatus ==
    (handler = "tool" /\ pc = "exited") =>
        /\ priv.exit_status = 0 => \A n \in ToolDeclared : ToolCallAt("done", n) # 0
        /\ error.type = "ImageError" => priv.exit_status # 0

-----------------------------------------------------------------------------
(* Error kinds *)

\* C17: whenever setup or generate of the kdimage handler rejects its input
\* (a missing image_info, chip_info or board_info, an unsupported table or
\* medium type, partition-type or partition-type-uuid with the wrong table
\* type, an overlap, a size error), the exception raised is an ImageError.
C17_RejectionsAreImageError ==
    (handler = "kd" /\ pc = "error") => error.type = "ImageError"

-----------------------------------------------------------------------------
(* hybrid validation *)

\* the partitions that count for the hybrid MBR: in the partition table and
\* with a partition-type that is set (not absent, empty or 0)
HybridEntries(parts) ==
    Cardinality({i \in 1..Len(parts) : parts[i].in_partition_table /\ PtTruthy(parts[i].partition_type)})

\* the exception is one of the two of the hybrid validation
IsHybridRejection(err) ==
    err.msg \in {"hybrid table needs a partition with partition-type", "hybrid table supports max 3 partitions"}

\* C18: hdimage setup of a hybrid table passes the hybrid validation
\* exactly when 1 to 3 partitions are in the partition table with a
\* partition-type; with none or with 4 or more, setup ends with an
\* ImageError and generate is not reached.
C18_HybridValidation ==
    [][(handler = "hd" /\ pc = "start" /\ config.table = "hybrid") =>
          LET n == HybridEntries(image.partitions) IN
          /\ (n >= 1 /\ n <= 3) <=> ~IsHybridRejection(error')
          /\ ~(n >= 1 /\ n <= 3) => (pc' = "error" /\ error'.type = "ImageError" /\ outfile' = <<>>)]_vars

\* C18 witness: a hybrid configuration with 4 partitions in the table with
\* a partition-type, rejected by setup.
C18_Witness ==
    /\ handler = "hd" /\ config.table = "hybrid" /\ pc = "error"
    /\ HybridEntries(image.partitions) = 4
    /\ error.during = "setup" /\ IsHybridRejection(error)

-----------------------------------------------------------------------------
(* parse_size of common.py *)

(* handler = "parse_size". config is the argument, a string kept as the
   sequence of its characters; priv = [result] holds the returned number. *)

\* Longest argument string explored.
MaxSizeLen == 3

\* the characters of the argument strings
SizeAlphabet == {"0", "1", "2", "k", "K", "m", "q", "x", "f", ".", " "}

DecimalDigits == {"0", "1", "2", "3", "4", "5", "6", "7", "8", "9"}

\* the value of a hexadecimal digit, -1 for any other character
HexValue(c) ==
    CASE c = "0" -> 0 [] c = "1" -> 1 [] c = "2" -> 2 [] c = "3" -> 3 [] c = "4" -> 4
      [] c = "5" -> 5 [] c = "6" -> 6 [] c = "7" -> 7 [] c = "8" -> 8 [] c = "9" -> 9
      [] c = "a" -> 10 [] c = "b" -> 11 [] c = "c" -> 12 [] c = "d" -> 13 [] c = "e" -> 14
      [] c = "f" -> 15 [] OTHER -> -1

\* str.lower, character by character
Lower(s) == [k \in 1..Len(s) |-> IF s[k] = "K" THEN "k" ELSE s[k]]

\* str.strip
RECURSIVE Strip(_)
Strip(s) ==
    IF s = <<>> THEN s
    ELSE IF Head(s) = " " THEN Strip(Tail(s))
    ELSE IF s[Len(s)] = " " THEN Strip(SubSeq(s, 1, Len(s) - 1))
    ELSE s

\* the number a string of digits denotes in the given base
RECURSIVE DigitsValue(_, _)
DigitsValue(digits, base) ==
    IF digits = <<>> THEN 0
    ELSE DigitsValue(SubSeq(digits, 1, Len(digits) - 1), base) * base + HexValue(digits[Len(digits)])

RECURSIVE Power(_, _)
Power(b, n) == IF n = 0 THEN 1 ELSE b * Power(b, n - 1)

\* the unit table of parse_size ('g' and 't' are not among the characters
\* explored)
SizeSuffixes == ("k" :> 1024) @@ ("m" :> 1024 * 1024)

\* float(num_str) followed by int(num * multiplier): num_str holds digits and
\* '.' only; float rejects it unless it has a digit and at most one '.'.
\* The multipliers are powers of two, so the float product is exact and
\* int() cuts the fraction off.
SizeFloat(num_str, multiplier) ==
    LET dots == {k \in 1..Len(num_str) : num_str[k] = "."}
        dot == IF dots = {} THEN Len(num_str) + 1 ELSE CHOOSE k \in dots : TRUE
        whole == SubSeq(num_str, 1, dot - 1)
        fraction == SubSeq(num_str, dot + 1, Len(num_str))
    IN IF Cardinality(dots) > 1 \/ Len(whole) + Len(fraction) = 0
       THEN [ok |-> FALSE, value |-> 0]
       ELSE [ok |-> TRUE,
             value |-> DigitsValue(whole, 10) * multiplier
                       + (DigitsValue(fraction, 10) * multiplier) \div Power(10, Len(fraction))]

\* parse_size: the number, or the exception raised
parse_size(size_str) ==
    IF size_str = <<>> THEN [value |-> 0, err |-> NoError]
    ELSE LET s == Lower(Strip(size_str))
             hexdigits == SubSeq(s, 3, Len(s))
             run == {n \in 0..Len(s) : \A k \in 1..n : s[k] \in DecimalDigits \cup {"."}}
             n == CHOOSE m \in run : \A j \in run : j <= m
             num_str == SubSeq(s, 1, n)
             suffix == IF n < Len(s) THEN s[n + 1] ELSE ""
             multiplier == IF suffix \in DOMAIN SizeSuffixes THEN SizeSuffixes[suffix] ELSE 1
             num == SizeFloat(num_str, multiplier)
         IN IF Len(s) >= 2 /\ SubSeq(s, 1, 2) = <<"0", "x">>
            THEN IF hexdigits # <<>> /\ \A k \in 1..Len(hexdigits) : HexValue(hexdigits[k]) >= 0
                 THEN [value |-> DigitsValue(hexdigits, 16), err |-> NoError]
                 ELSE [value |-> 0, err |-> Raise("ImageError", "Invalid hexadecimal size format")]
            ELSE IF num_str = <<>> \/ ~num.ok
                 THEN [value |-> 0, err |-> Raise("ImageError", "Invalid size format")]
                 ELSE [value |-> num.value, err |-> NoError]

\* the argument strings
SizeStrings == UNION {[1..n -> SizeAlphabet] : n \in 0..MaxSizeLen}

InitSize ==
    /\ handler = "parse_size"
    /\ config \in SizeStrings
    /\ image = [size |-> 0, size_str |-> 0, partitions |-> <<>>]
    /\ priv = [result |-> 0]
    /\ outfile = <<>>
    /\ pc = "start"
    /\ error = NoException

\* one call parse_size(config)
SizeParse ==
    /\ handler = "parse_size" /\ pc = "start"
    /\ LET r == parse_size(config) IN
         /\ priv' = [result |-> r.value]
         /\ error' = IF r.err = NoError THEN NoException ELSE Raised(r.err, "parse_size")
         /\ pc' = IF r.err = NoError THEN "returned" ELSE "error"
    /\ UNCHANGED <<handler, config, image, outfile>>

NextSize == SizeParse

SpecSize == InitSize /\ [][NextSize]_vars

\* the literals the property calls well-formed, surrounding blanks and
\* letter case aside: decimal digits (with an optional fraction) and at most
\* one unit letter after them, or 0x and hexadecimal digits
SizeWellFormed(size_str) ==
    LET s == Lower(Strip(size_str))
        last == IF s = <<>> THEN "" ELSE s[Len(s)]
        number == IF last \in {"k", "m", "g", "t"} THEN SubSeq(s, 1, Len(s) - 1) ELSE s
    IN \/ /\ Len(s) > 2 /\ SubSeq(s, 1, 2) = <<"0", "x">>
          /\ \A k \in 3..Len(s) : HexValue(s[k]) >= 0
       \/ /\ \A k \in 1..Len(number) : number[k] \in DecimalDigits \cup {"."}
          /\ \E k \in 1..Len(number) : number[k] \in DecimalDigits
          /\ Cardinality({k \in 1..Len(number) : number[k] = "."}) <= 1

\* C19: parse_size returns a number only for a well-formed literal; for the
\* empty string and for every malformed string (unknown unit, trailing
\* garbage, bad hexadecimal digits, no digits) it raises an error.
C19_OnlyWellFormedReturns ==
    (handler = "parse_size" /\ pc # "start") => (pc = "returned" <=> SizeWellFormed(config))

-----------------------------------------------------------------------------
(* roundup and rounddown of image_com.py, _roundup and _rounddown of image_hd.py *)

(* handler = "round". config = [value, align] holds the arguments;
   priv = [up, down, hd_up, hd_down] holds what the four functions return. *)

\* Largest value and largest alignment explored.
MaxRoundValue == 40
MaxRoundAlign == 9

\* roundup stepping to the next boundary from every value
roundup_from_value(value, align) ==
    IF align = 0 THEN value ELSE (value \div align + 1) * align

\* ComImageHandler.roundup
roundup(value, align) ==
    IF align = 0 THEN value ELSE ((value - 1) \div align + 1) * align

\* ComImageHandler.rounddown
rounddown(value, align) ==
    IF align = 0 THEN value ELSE value - (value % align)

InitRound ==
    /\ handler = "round"
    /\ config \in [value : 0..MaxRoundValue, align : 0..MaxRoundAlign]
    /\ image = [size |-> 0, size_str |-> 0, partitions |-> <<>>]
    /\ priv = [up |-> 0, down |-> 0, hd_up |-> 0, hd_down |-> 0]
    /\ outfile = <<>>
    /\ pc = "start"
    /\ error = NoException

\* the four functions called on config.value and config.align
RoundCall ==
    /\ handler = "round" /\ pc = "start"
    /\ priv' = [up |-> roundup(config.value, config.align),
                down |-> rounddown(config.value, config.align),
                hd_up |-> _roundup(config.value, config.align),
                hd_down |-> _rounddown(config.value, config.align)]
    /\ pc' = "rounded"
    /\ UNCHANGED <<handler, config, image, outfile, error>>

NextRound == RoundCall

SpecRound == InitRound /\ [][NextRound]_vars

\* down and up are the multiples of a nearest to v from below and from above
NearestMultiples(v, a, down, up) ==
    /\ down <= v /\ v <= up
    /\ down % a = 0 /\ up % a = 0
    /\ v - down < a /\ up - v < a

\* C20: for v >= 0 and a > 0, rounddown(v, a) <= v <= roundup(v, a), both are
\* multiples of a, and each is less than a away from v; for a = 0 both
\* return v unchanged. The same holds of _rounddown and _roundup.
C20_RoundingBrackets ==
    (handler = "round" /\ pc = "rounded") =>
        IF config.align = 0
        THEN priv.up = config.value /\ priv.down = config.value
             /\ priv.hd_up = config.value /\ priv.hd_down = config.value
        ELSE /\ NearestMultiples(config.value, config.align, priv.down, priv.up)
             /\ NearestMultiples(config.value, config.align, priv.hd_down, priv.hd_up)

\* a value that is no multiple of the alignment has been rounded both ways
C20_Witness ==
    /\ handler = "round" /\ pc = "rounded"
    /\ config.align > 1 /\ config.value > config.align /\ config.value % config.align # 0
    /\ priv.down < config.value /\ config.value < priv.up

-----------------------------------------------------------------------------
(* C21: logical partitions of an MBR hdimage *)

\* the positions of the in-table partitions, in declared order
RECURSIVE InTablePositions(_, _)
InTablePositions(parts, i) ==
    IF i > Len(parts) THEN <<>>
    ELSE (IF parts[i].in_partition_table THEN <<i>> ELSE <<>>) \o InTablePositions(parts, i + 1)

\* the rejections raised inside the loop of _setup_logical_partitions
IsLogicalRejection(err) ==
    err.during = "setup" /\ err.msg \in {"forced-primary before the extended partition",
                                         "non-primary partition after a forced primary partition",
                                         "too many primary partitions"}

\* declared is the partition list of the configuration, k its extended-partition
\* index, after the list once setup has returned: the partitions before the
\* k-th in-table one are primary, the k-th and the following ones are logical
\* up to the first forced-primary one, which is primary; [Extended] is primary
LogicalAsDeclared(declared, k, after) ==
    LET pos == InTablePositions(declared, 1)
        forced == {n \in k..Len(pos) : declared[pos[n]].forced_primary}
        first_forced == IF forced = {} THEN Len(pos) + 1 ELSE CHOOSE n \in forced : \A m \in forced : n <= m
    IN /\ \A n \in 1..Len(pos) : n < k => ~after[pos[n]].logical
       /\ \A n \in 1..Len(pos) : (k <= n /\ n < first_forced) => after[pos[n]].logical
       /\ first_forced <= Len(pos) => ~after[pos[first_forced]].logical
       /\ \A j \in 1..Len(after) : after[j].name = "[Extended]" => ~after[j].logical

\* C21: for an MBR hdimage whose extended-partition index k names one of its
\* in-table partitions, setup rejects a forced-primary partition only when it
\* comes before the k-th in-table partition, and when setup accepts the
\* configuration the partitions before the k-th are primary, the k-th and the
\* following ones are logical up to the first forced-primary partition, that
\* partition is primary, and [Extended] itself is not logical.
C21_LogicalMarking ==
    [][(handler = "hd" /\ pc = "start" /\ config.table = "mbr"
        /\ config.extended_partition \in 1..InTableCount(image.partitions))
       => LET pos == InTablePositions(image.partitions, 1)
              k == config.extended_partition
              forced_before == \E n \in 1..(k - 1) : image.partitions[pos[n]].forced_primary
              forced_last == \A n \in k..Len(pos) : \A m \in n..Len(pos) :
                                 image.partitions[pos[n]].forced_primary
                                     => image.partitions[pos[m]].forced_primary
          IN /\ (~forced_before /\ forced_last /\ Len(pos) <= 4) => ~IsLogicalRejection(error')
             /\ pc' = "setup_ok" => LogicalAsDeclared(image.partitions, k, image'.partitions)]_vars

-----------------------------------------------------------------------------
(* C22: the extended partition *)

\* the partitions marked logical that the configuration declared
HdLogicalParts == SelectSeq(HdParts, LAMBDA q : q.logical /\ q.name # "[Extended]")

\* _write_mbr has written its 72 bytes
HdMbrWritten ==
    \E j \in 1..Len(outfile) : outfile[j].kind = "bytes" /\ outfile[j].at = 440 /\ outfile[j].len = 72

\* the slots of the sector-0 table that hold an entry of this type
HdMbrSlotsOfType(code) == {n \in 0..3 : ByteAt(outfile, 446 + 16 * n + 4) = code}

\* C22: in an MBR hdimage with logical partitions, after layout the range of
\* [Extended] contains every logical partition together with its EBR (from
\* offset - align to offset + size), and the sector-0 table, once written,
\* holds exactly one entry of type 0x0F.
C22_ExtendedContainsLogical ==
    (HdSetupSucceeded /\ config.table = "mbr" /\ Len(HdLogicalParts) > 0) =>
        /\ \E j \in 1..Len(HdParts) :
             /\ HdParts[j].name = "[Extended]"
             /\ \A n \in 1..Len(HdLogicalParts) :
                  /\ HdParts[j].offset <= HdLogicalParts[n].offset - priv.align
                  /\ HdLogicalParts[n].offset + HdLogicalParts[n].size
                        <= HdParts[j].offset + HdParts[j].size
        /\ HdMbrWritten => Cardinality(HdMbrSlotsOfType(PARTITION_TYPE_EXTENDED)) = 1

-----------------------------------------------------------------------------
(* C23: the extended boot records *)

\* the position in the file's log of the write of _write_mbr
HdMbrWrite == CHOOSE j \in 1..Len(outfile) :
                  outfile[j].kind = "bytes" /\ outfile[j].at = 440 /\ outfile[j].len = 72

\* the writes _write_ebrs has made: those after the write of _write_mbr
HdEbrWrites == IF HdMbrWritten THEN (HdMbrWrite + 1)..Len(outfile) ELSE {}

\* the sector starting at L.offset - align is an EBR of L
HdIsEbrOf(sector, L) ==
    /\ sector = L.offset - priv.align
    /\ ByteAt(outfile, sector + 446 + 4) = HdTypeCode(L)
    /\ FieldLE(outfile, sector + 446 + 8, 4) * 512 = priv.align
    /\ FieldLE(outfile, sector + 446 + 12, 4) * 512 = L.size
    /\ ByteAt(outfile, sector + 510) = 85 /\ ByteAt(outfile, sector + 511) = 170

\* C23: every write generate makes for an EBR stays inside the 512-byte
\* sector starting at L.offset - align of a logical partition L; that sector
\* holds the entry describing L at bytes 446..461 and 0x55 0xAA at bytes 510
\* and 511; a finished image has such a sector for each logical partition.
C23_EbrSector ==
    (HdSetupSucceeded /\ config.table = "mbr") =>
        /\ \A j \in HdEbrWrites :
             \E n \in 1..Len(HdParts) :
                /\ HdParts[n].logical
                /\ HdParts[n].offset - priv.align <= outfile[j].at
                /\ outfile[j].at + outfile[j].len <= HdParts[n].offset - priv.align + 512
                /\ HdIsEbrOf(HdParts[n].offset - priv.align, HdParts[n])
        /\ HdFinished =>
             \A n \in 1..Len(HdLogicalParts) :
                HdIsEbrOf(HdLogicalParts[n].offset - priv.align, HdLogicalParts[n])

-----------------------------------------------------------------------------
(* C24: a child image larger than its kdimage partition *)

\* the declared partitions whose child image is larger than their size
KdExceeding == {i \in 1..Len(KdParts) : KdParts[i].image # "" /\ ChildExists(KdParts[i].image)
                                        /\ KdParts[i].size # 0
                                        /\ ChildSize(KdParts[i].image) > KdParts[i].size}

\* the flag marks write-with-OOB, the child is a whole number of page + OOB
\* units, and its pages alone fit the partition
KdFitsWithoutOob(part) ==
    LET page_size == part.flag.val1
        oob_size == part.flag.val2
        child_size == ChildSize(part.image)
    IN /\ part.flag.flag_flag = 1024
       /\ page_size + oob_size > 0
       /\ child_size % (page_size + oob_size) = 0
       /\ (child_size * page_size) \div (page_size + oob_size) <= part.size

\* C24: when setup and generate of a kdimage have ended and some partition's
\* child image is larger than the partition's configured size, the image was
\* generated if every such partition carries the write-with-OOB marker with
\* page and OOB sizes that divide the child and whose pages fit the size;
\* otherwise the image was rejected.
C24_OverflowPolicy ==
    (handler = "kd" /\ pc \in {"done", "error"} /\ KdExceeding # {}) =>
        IF \A i \in KdExceeding : KdFitsWithoutOob(KdParts[i])
        THEN pc = "done"
        ELSE pc = "error"

-----------------------------------------------------------------------------
(* C25: the order of the writes of kdimage generate *)

\* the positions in the file's log of the writes of this kind of structure
KdWritesOf(kind) == {j \in 1..Len(outfile) : outfile[j].kind = kind}

\* C25: in a generated kdimage the content bodies were written first, then
\* the descriptor table at offset 512, then the header at offset 0: every
\* write of bytes other than the header comes before the header write.
C25_HeaderWrittenLast ==
    KdFinished =>
        /\ KdWritesOf("kd_header") # {}
        /\ \A h \in KdWritesOf("kd_header") : \A j \in 1..Len(outfile) :
             (outfile[j].kind \notin {"kd_header", "truncate"}) => j < h
        /\ \A t \in KdWritesOf("kd_part_table") : \A j \in 1..Len(outfile) :
             (outfile[j].kind \in {"fill", "bytes"}) => j < t

-----------------------------------------------------------------------------
(* C26: the protective entry of a hybrid table *)

\* C26: the sector-0 table of a finished hdimage with partition-table-type
\* hybrid holds exactly one entry of type 0xEE; it starts at LBA 1 and ends
\* at the last sector of the GPT entry array, gpt-location / 512 + 31.
C26_HybridProtectiveEntry ==
    (HdFinished /\ config.table = "hybrid") =>
        /\ Cardinality(HdMbrSlotsOfType(238)) = 1
        /\ \A n \in HdMbrSlotsOfType(238) :
             /\ FieldLE(outfile, 446 + 16 * n + 8, 4) = 1
             /\ 1 + FieldLE(outfile, 446 + 16 * n + 12, 4) - 1 = (config.gpt_location \div 512) + 31

-----------------------------------------------------------------------------
(* C27: minimization keeps the allocated clusters *)

\* the geometry of a volume as its boot sector states it: a volume with a
\* 16-bit sectors-per-FAT field is FAT16, one without is FAT32
VfatSectorsPerFat(file) ==
    IF file.bpb.sectors_per_fat_16 # 0 THEN file.bpb.sectors_per_fat_16 ELSE file.bpb.sectors_per_fat_32

VfatEntryBytes(file) == IF file.bpb.sectors_per_fat_16 # 0 THEN 2 ELSE 4

VfatFatStart(file) == file.bpb.reserved_sectors * 512

\* the first byte of cluster 2: behind the FAT copies and the FAT16 root directory
VfatDataStart(file) ==
    (file.bpb.reserved_sectors + file.bpb.num_fats * VfatSectorsPerFat(file)) * 512
        + ((file.bpb.root_entry_count * 32 + 511) \div 512) * 512

VfatClusterBytes(file) == file.bpb.sectors_per_cluster * 512

\* the clusters from 2 on whose entry in the first FAT is not free
VfatAllocated(file) ==
    { (2 * w - VfatFatStart(file)) \div VfatEntryBytes(file) :
        w \in { x \in DOMAIN file.words : /\ 2 * x >= VfatFatStart(file) + 2 * VfatEntryBytes(file)
                                          /\ 2 * x < VfatFatStart(file) + VfatSectorsPerFat(file) * 512 } }

\* C27: a minimization that succeeds leaves the file at least as long as the
\* FAT copies, the FAT16 root directory and every cluster whose FAT entry is
\* not free: its new length is at least data_start + (c - 1) * cluster_size
\* for every allocated cluster c >= 2.
C27_MinimizeKeepsAllocated ==
    [][(handler = "vfat" /\ pc = "generated" /\ pc' = "minimized") =>
          /\ outfile'.size >= VfatDataStart(outfile)
          /\ \A c \in VfatAllocated(outfile) :
                outfile'.size >= VfatDataStart(outfile) + (c - 1) * VfatClusterBytes(outfile)]_vars

-----------------------------------------------------------------------------
(* hdimage: partitions without a child image *)

\* the names a partition without a child image may have
HdImagelessNames ==
    {"ota_meta", "[MBR]", "[GPT header]", "[GPT array]", "[GPT backup]", "[TOC]", "[Extended]"}

\* the partitions with no child image and a name outside HdImagelessNames
HdImagelessParts ==
    {i \in 1..Len(HdParts) : HdParts[i].image = "" /\ HdParts[i].name \notin HdImagelessNames}

\* C28: hdimage generate never gets past its partition-data step with a
\* partition that has no child image and whose name is not one of ota_meta,
\* [MBR], [GPT header], [GPT array], [GPT backup], [TOC], [Extended]: the
\* step fails instead of skipping the partition.
C28_ImagelessPartitionRejected ==
    (handler = "hd" /\ pc \in {"bodies_ok", "table_ok", "done"}) => HdImagelessParts = {}

-----------------------------------------------------------------------------
(* vfat and uffs: generate and the external tools (common.run_command) *)

(* handler = "fs". config = [type, minimize, files, parts, size] gives the
   image type ("vfat" or "uffs"), the minimize option, the number of files
   under the mount path, the number of partitions (files named in the
   configuration) and the image size; priv = [calls, copied, allocated]
   holds the tool invocations made so far with their exit statuses, the
   number of mcopy runs and the number of files the volume holds. *)

\* Largest number of files under the mount path.
FsMaxFiles == 2

\* what run_command returns for a tool that exits with this status:
\* subprocess.run is called without check=True, so CalledProcessError is
\* never raised and the exit status is never looked at
run_command(status) == 0

\* the volume mkdosfs makes: FAT32, 66600 sectors
FsVolume == CHOOSE v \in VfatVolumes : v.fat32

\* the file prepare_image leaves: size bytes of 0x00
FsBlank(size) ==
    [bpb |-> [bytes_per_sector |-> 0, sectors_per_cluster |-> 0, reserved_sectors |-> 0,
              num_fats |-> 0, root_entry_count |-> 0, total_sectors_16 |-> 0,
              sectors_per_fat_16 |-> 0, total_sectors_32 |-> 0, sectors_per_fat_32 |-> 0],
     words |-> [w \in {} |-> 0],
     size |-> size]

\* the volume holding n files of one cluster each
FsFormatted(n) ==
    mkdosfs(FsVolume, 513, [c \in 0..(n + 1) |-> IF c = 0 THEN 268435448 ELSE 268435455])

\* the pages and spare areas of a uffs image of total_blocks blocks
FsUffsFile(total_blocks) == [exists |-> TRUE, size |-> total_blocks * 64 * (2048 + 64)]

FsConfigs ==
    { [type |-> "vfat", minimize |-> mz, files |-> n, parts |-> k, size |-> FsVolume.total_sectors * 512] :
        mz \in BOOLEAN, n \in 0..FsMaxFiles, k \in {0, 1} }
    \cup { [type |-> "uffs", minimize |-> FALSE, files |-> 0, parts |-> 0, size |-> sz] :
             sz \in {4 * 64 * 2048, 4 * 64 * 2048 + 512} }

InitFs ==
    /\ handler = "fs"
    /\ config \in FsConfigs
    /\ image = [size |-> config.size, size_str |-> config.size, partitions |-> <<>>]
    /\ priv = [calls |-> <<>>, copied |-> 0, allocated |-> 0]
    /\ outfile = <<>>
    /\ pc = "start"
    /\ error = NoException

\* VFatHandler.generate: prepare_image and mkdosfs
FsMkdosfs ==
    /\ handler = "fs" /\ config.type = "vfat" /\ pc = "start"
    /\ \E status \in {0, 1}, wrote \in BOOLEAN :
         /\ status = 0 => wrote
         /\ priv' = [priv EXCEPT !.calls = Append(@, [tool |-> "mkdosfs", status |-> status])]
         /\ outfile' = IF wrote THEN FsFormatted(0) ELSE FsBlank(image.size)
         /\ IF run_command(status) # 0
            THEN /\ pc' = "error"
                 /\ error' = Raised(Raise("ImageError", "Failed to create VFAT filesystem"), "mkdosfs")
            ELSE /\ pc' = "formatted"
                 /\ error' = error
    /\ UNCHANGED <<handler, config, image>>

\* VFatHandler.generate: the loop over image.partitions; _get_child_image
\* reads dep.name of a dependency, which is a dict
FsChildImages ==
    /\ handler = "fs" /\ config.type = "vfat" /\ pc = "formatted"
    /\ IF config.parts > 0
       THEN /\ pc' = "error"
            /\ error' = Raised(Raise("AttributeError", "'dict' object has no attribute 'name'"), "partitions")
       ELSE /\ pc' = "copying"
            /\ error' = error
    /\ UNCHANGED <<handler, config, image, priv, outfile>>

\* VFatHandler.generate: mcopy of one file of the mount path
FsMcopy ==
    /\ handler = "fs" /\ config.type = "vfat" /\ pc = "copying"
    /\ priv.copied < config.files
    /\ \E status \in {0, 1}, wrote \in BOOLEAN :
         LET formatted == outfile.bpb.bytes_per_sector # 0
             stored == wrote /\ formatted
             allocated == priv.allocated + (IF stored THEN 1 ELSE 0)
         IN /\ status = 0 => stored
            /\ priv' = [calls |-> Append(priv.calls, [tool |-> "mcopy", status |-> status]),
                        copied |-> priv.copied + 1, allocated |-> allocated]
            /\ outfile' = IF formatted THEN FsFormatted(allocated) ELSE outfile
            /\ IF run_command(status) # 0
               THEN /\ pc' = "error"
                    /\ error' = Raised(Raise("ImageError", "Failed to copy from mountpath to VFAT image"), "mcopy")
               ELSE /\ pc' = "copying"
                    /\ error' = error
    /\ UNCHANGED <<handler, config, image>>

\* VFatHandler.generate: the end of the copy loop and the minimization
FsMinimize ==
    /\ handler = "fs" /\ config.type = "vfat" /\ pc = "copying"
    /\ priv.copied = config.files
    /\ LET r == IF config.minimize THEN VfatMinimizeStep(outfile, image.size)
                ELSE [file |-> outfile, size |-> image.size, err |-> NoError]
       IN /\ outfile' = r.file
          /\ image' = [image EXCEPT !.size = r.size]
          /\ error' = IF r.err = NoError THEN NoException ELSE Raised(r.err, "minimize")
          /\ pc' = IF r.err = NoError THEN "done" ELSE "error"
    /\ UNCHANGED <<handler, config, priv>>

\* UffsHandler.generate: the size test, os.remove, mkuffs and os.stat
FsMkuffs ==
    /\ handler = "fs" /\ config.type = "uffs" /\ pc = "start"
    /\ LET block_size == 2048 * 64
           total_blocks == config.size \div block_size
       IN IF config.size % block_size # 0
          THEN /\ pc' = "error"
               /\ error' = Raised(Raise("ImageError", "Invalid image size"), "size")
               /\ outfile' = [exists |-> TRUE, size |-> image.size]
               /\ UNCHANGED <<priv, image>>
          ELSE \E status \in {0, 1}, wrote \in BOOLEAN :
                 /\ status = 0 => wrote
                 /\ priv' = [priv EXCEPT !.calls = Append(@, [tool |-> "mkuffs", status |-> status])]
                 /\ outfile' = IF wrote THEN FsUffsFile(total_blocks) ELSE [exists |-> FALSE, size |-> 0]
                 /\ IF run_command(status) # 0 \/ ~wrote
                    THEN /\ pc' = "error"
                         /\ error' = Raised(Raise("ImageError", "Unable to get image file information"), "stat")
                         /\ image' = image
                    ELSE /\ pc' = "done"
                         /\ error' = error
                         /\ image' = [image EXCEPT !.size = FsUffsFile(total_blocks).size]
    /\ UNCHANGED <<handler, config>>

NextFs == FsMkdosfs \/ FsChildImages \/ FsMcopy \/ FsMinimize \/ FsMkuffs

SpecFs == InitFs /\ [][NextFs]_vars

\* C29: when an external tool (mkdosfs, mcopy, mkuffs) has exited with a
\* non-zero status, generate has failed with an error and has run no later
\* step: the failed invocation is the last one made and the image is not
\* reported as generated.
C29_ToolFailureStopsGenerate ==
    handler = "fs" =>
        \A k \in 1..Len(priv.calls) :
            priv.calls[k].status # 0 => (k = Len(priv.calls) /\ pc = "error")

-----------------------------------------------------------------------------
(* _lba_to_chs of image_hd.py and image_com.py *)

(* handler = "chs". config = [lba, cls] is the argument and the class whose
   method is called; priv = [chs] is the chs list the call fills in. *)

\* Largest cylinder number of the LBAs explored.
MaxCylinder == 1026

\* ComImageHandler._lba_to_chs
Com_lba_to_chs(lba) ==
    LET hpc == 255
        spt == 63
        s == lba % spt
        c0 == lba \div spt
        h == c0 % hpc
        c == c0 \div hpc
    IN <<h, ((c \div 256) % 4) * 64 + (IF s # 0 THEN s + 1 ELSE 0), c % 256>>

\* LBAs at the first, second and last head and sector of cylinders on both
\* sides of 0xFF, 0x300 and 0x3FF
ChsLbas ==
    { c * (63 * 255) + h * 63 + s :
        c \in {0, 1, 255, 256, 767, 768, 1023} \cup (1024..MaxCylinder),
        h \in {0, 1, 254}, s \in {0, 1, 62} }

InitChs ==
    /\ handler = "chs"
    /\ config \in [lba : ChsLbas, cls : {"HdImageHandler", "ComImageHandler"}]
    /\ image = <<>>
    /\ priv = [chs |-> <<0, 0, 0>>]
    /\ outfile = <<>>
    /\ pc = "start"
    /\ error = NoException

ChsCall ==
    /\ handler = "chs" /\ pc = "start"
    /\ priv' = [chs |-> IF config.cls = "HdImageHandler" THEN _lba_to_chs(config.lba)
                        ELSE Com_lba_to_chs(config.lba)]
    /\ pc' = "done"
    /\ UNCHANGED <<handler, config, image, outfile, error>>

NextChs == ChsCall

SpecChs == InitChs /\ [][NextChs]_vars

\* the cylinder number the three CHS bytes encode: the two high bits of
\* chs[1] followed by chs[2]
ChsCylinder(chs) == (chs[1] \div 64) * 256 + chs[2]

\* C30: with 255 heads and 63 sectors per track the encoding saturates: an
\* LBA whose cylinder number c = lba / (63 * 255) exceeds 0x3FF is encoded
\* with cylinder 0x3FF, and for c <= 0x3FF the bytes are chs[0] = head,
\* chs[1] = ((c & 0x300) >> 2) | (s ? s + 1 : 0), chs[2] = c & 0xFF.
C30_ChsSaturates ==
    (handler = "chs" /\ pc = "done") =>
        LET s == config.lba % 63
            h == (config.lba \div 63) % 255
            c == config.lba \div (63 * 255)
        IN IF c > 1023
           THEN ChsCylinder(priv.chs) = 1023
           ELSE priv.chs = <<h, ((c \div 256) % 4) * 64 + (IF s # 0 THEN s + 1 ELSE 0), c % 256>>

====
